---- MODULE Spec2Model ----
(***************************************************************************)
(* PFQ transmit core: the lock-free socket-buffer pool                     *)
(* (kernel/pf_q-skbuff-pool.h) and the transmit scheduler that drains the  *)
(* double-buffered TX ring (kernel/pf_q-transmit.c).                       *)
(*                                                                         *)
(* Two state machines share this module.  SpecPool interleaves the loads   *)
(* and stores of one pfq_skb_pool_push caller and one pfq_skb_pool_pop     *)
(* caller.  Spec and SpecFlush run __pfq_queue_xmit, step by step, against *)
(* the user-space producer of the ring; Spec has one drainer at a time     *)
(* (the worker, or the flush calls of a single-threaded user), SpecFlush   *)
(* lets the threads of a process call pfq_queue_flush concurrently.        *)
(***************************************************************************)
EXTENDS Integers, Sequences, FiniteSets, TLC

(* ------------------------------ bounds -------------------------------- *)

\* slots of the pool's array (pool->size)
PoolSize == 4
\* buffers the producer hands to pfq_skb_pool_push in one run
MaxPush == 8

\* descriptor slots in one half of the TX ring
HalfSlots == 3
\* the module parameter batch_len: handles a batch holds before it must be flushed
batch_len == 2
\* largest nsec timestamp user space writes, and the last value of the clock
MaxTs == 1
MaxClock == 1
\* drains started on the ring in one run (the last value of cons)
MaxCons == 3
\* threads that may run __pfq_queue_xmit: thread 1 is the worker when one is bound
NThreads == 2
\* the payload length of every descriptor user space writes
PktLen == 100
\* buffers in the batch of one pfq_batch_xmit call
MaxBatch == 3
\* devices a lazy forward can target
NDevs == 2
\* buffers in the GC pool of one pfq_lazy_xmit_exec call
MaxGc == 3
\* times one device can occur in the log of one buffer
MaxRefs == 2
\* largest TX queue index a caller requests or a driver's selector answers
MaxQueue == 3
\* largest dev->real_num_tx_queues
MaxRealQueues == 3
\* dev->real_num_tx_queues of the devices a lazy forward targets
LazyRealQueues == 2

\* annotations in the logs of the whole GC pool
MaxMarks == 5
\* txs->size: bytes in one half of the TX ring
HalfBytes == 160
\* the module parameter max_len: largest payload copied into a buffer
max_len == 80
\* descriptors user space writes into one half
MaxDescs == 4
\* pfq_batch_xmit calls one full_batch_xmit makes before give-up is raised
MaxRounds == 3
\* combinators nested in a predicate, and the largest index serialize starts from
MaxPredDepth == 2
MaxIndex == 1
\* Q_GC_LOG_QUEUE_LEN: entries the log of one buffer can hold
Q_GC_LOG_QUEUE_LEN == 3

(* --------------------------- program values --------------------------- *)

EINTR == 4
EPERM == 1

\* a NULL sk_buff pointer
NULL == 0

\* sizeof(struct pfq_pkthdr_tx): u64 nsec, u64 len
HdrBytes == 16
\* bytes copied for a packet shorter than the minimum frame
MinCopy == 64
\* the largest hdr->len a debug build accepts
MaxHdrLen == 2048

VARIABLES
    \* struct pfq_skb_pool
    skbs, p_idx, c_idx, pool_on,
    \* atomic_t users of every buffer
    users,
    \* the producer inside pfq_skb_pool_push: position, locals p, c (n is derived), argument skb
    ppc, pp, pcc, pskb,
    \* the consumer inside pfq_skb_pool_pop: position, locals c, p, skb
    cpc, cc, cp, cskb,
    \* memory_stats.os_free
    os_free,
    \* what became of the buffers: handed to push so far, returned by pop (in order), kfree_skb'ed
    npushed, popped, slow_freed,
    \* BUG_ON(pool->skbs[p] != NULL) fired
    bug_on,
    \* the value the last pfq_skb_pool_pop returned (-1: none returned yet, NULL, or
    \* the buffer), and the last pfq_skb_pool_push ("none", "true", "false")
    pop_ret, push_ret

poolVars == <<skbs, p_idx, c_idx, pool_on, users, ppc, pp, pcc, pskb,
              cpc, cc, cp, cskb, os_free, npushed, popped, slow_freed, bug_on,
              pop_ret, push_ret>>

VARIABLES
    \* the TX ring shared with user space: two halves of descriptor slots, and the stamps
    ring, prod, cons,
    \* the burst of packets (their timestamps) user space writes into a half
    burst,
    \* to->queue[idx].task is set (a worker owns the ring); if_index resolves to a device
    task, dev_ok,
    \* the user process has several threads
    mt,
    \* giveup_tx_process() of each thread: signal_pending(current) || is_kthread_should_stop()
    giveup,
    \* ktime_get_real()
    clock,
    \* to->stats.sent, to->stats.disc, global_stats.abrt
    sent, disc, abrt,
    \* each thread inside __pfq_queue_xmit: position and the locals swap index, ptr,
    \* last_ts, now, skbs (the batch), tot_sent, disc, and total of full_batch_xmit
    pc, idx, ptr, last_ts, now, batch, tot_sent, ldisc, total,
    \* value returned by __pfq_queue_xmit and by pfq_queue_flush
    ret, fret,
    \* the user-space producer: "idle", or "filled" (descriptors written, prod not yet stored)
    ustate,
    \* history of the current drain of each thread: buffers the driver had accepted
    \* when it first rejected one (-1: no rejection), the allocator failed, a batch
    \* went to the driver in an iteration that saw give-up, give-up was seen by a loop
    first_rej, alloc_failed, sub_after_giveup, cancelled,
    \* a wait loop of the thread went round again in an iteration that saw give-up
    respun,
    \* descriptors (positions in the half) of the buffers the driver accepted in this
    \* drain, in the order of acceptance
    accepted,
    \* a buffer was handed to __pfq_xmit while the clock was before its nsec
    early,
    \* the value the last full_batch_xmit call of the thread returned
    fbx_ret,
    \* the batch as it was when the running full_batch_xmit call began
    batch0,
    \* half that the last drain abandoned in the swap wait would have drained (-1: none)
    eintr_half

ringVars == <<ring, prod, cons, burst, task, dev_ok, mt, giveup, clock, sent, disc, abrt,
              pc, idx, ptr, last_ts, now, batch, tot_sent, ldisc, total, ret, fret,
              ustate, first_rej, alloc_failed, sub_after_giveup, cancelled, respun,
              accepted, early, fbx_ret, batch0, eintr_half>>

VARIABLES
    \* the build defines PFQ_USE_XMIT_MORE
    use_xmit_more,
    \* one pfq_batch_xmit call: position, what each buffer of the batch meets in
    \* __pfq_xmit, the loop index n (from 1), ret, the xmit_more of every buffer
    \* given to ndo_start_xmit (in order), and the buffers kfree_skb'ed
    bx_pc, bx_cases, bx_n, bx_ret, bx_hints, bx_freed,
    \* the call is pfq_batch_xmit ("batch") or pfq_batch_xmit_by_mask ("mask"); the
    \* positions (from 1) whose bit is set in mask; the TX queue lock is held; the
    \* value the last __pfq_xmit returned; per buffer, the kfree_skb calls made on
    \* it; the buffers given to ndo_start_xmit
    bx_kind, bx_mask, bx_lock, bx_rc, bx_rel, bx_handed,
    \* pfq_pick_tx: *hw_queue, dev->real_num_tx_queues, whether the driver has an
    \* ndo_select_queue and the queue it answers
    bx_hw_queue, bx_real_num, bx_has_select, bx_select,
    \* the hw_queue the caller passed
    bx_hw_arg,
    \* one pfq_lazy_xmit_exec call: position, the targets ts->dev, and for each
    \* buffer of the GC pool its log (how often each device occurs in log->dev),
    \* log->to_kernel, log->xmit_todo, skb->users, and the references a driver holds
    lz_pc, lz_ts, lz_refs, lz_to_kernel, lz_xmit_todo, lz_users, lz_held,
    \* the locals n, i, j, num, txq (device whose TX queue is locked, 0: NULL),
    \* sent_dev, sent, and the increments of global_stats.abrt
    lz_n, lz_i, lz_j, lz_num, lz_txq, lz_sent_dev, lz_sent, lz_abrt,
    \* per device: loop iterations j run, buffers given to ndo_start_xmit, the pool
    \* position of the last buffer passed to __pfq_xmit, and times the lock was taken
    lz_att, lz_handed, lz_last, lz_locks,
    \* ts->cnt; per buffer, skb->queue_mapping; the last annotation call made
    \* ("none", "lazy_xmit", "batch_lazy_xmit") and the value it returned
    lz_cnt, lz_qmap, lz_call, lz_ret,
    \* per device: the xmit_more of the last buffer given to ndo_start_xmit ("none",
    \* "more" for true, "last" for false), and whether a buffer given before the
    \* last one carried xmit_more = false
    lz_more, lz_early_false

batchVars == <<use_xmit_more, bx_pc, bx_cases, bx_n, bx_ret, bx_hints, bx_freed,
               bx_kind, bx_mask, bx_lock, bx_rc, bx_rel, bx_handed,
               bx_hw_queue, bx_real_num, bx_has_select, bx_select, bx_hw_arg>>

lazyVars == <<lz_pc, lz_ts, lz_refs, lz_to_kernel, lz_xmit_todo, lz_users, lz_held,
              lz_n, lz_i, lz_j, lz_num, lz_txq, lz_sent_dev, lz_sent, lz_abrt,
              lz_att, lz_handed, lz_last, lz_locks,
              lz_cnt, lz_qmap, lz_call, lz_ret, lz_more, lz_early_false>>

VARIABLES
    \* the reads of one drain, byte by byte: the build defines PFQ_DEBUG; the hdr->len
    \* of the descriptors user space wrote from the base of the half; position; ptr
    \* as an offset from begin; the hdr->len last read; the end of the farthest byte
    \* read so far, as an offset from begin; why the Tx loop was left
    rd_debug, rd_lens, rd_pc, rd_ptr, rd_len, rd_hi, rd_stop

readVars == <<rd_debug, rd_lens, rd_pc, rd_ptr, rd_len, rd_hi, rd_stop>>

VARIABLES
    \* the TX queue (its index in the device) whose lock the running pfq_xmit,
    \* pfq_batch_xmit or pfq_batch_xmit_by_mask call holds (-1: none), and for every
    \* buffer the call gave to ndo_start_xmit the pair of skb->queue_mapping and the
    \* queue whose lock was held
    bx_txq, bx_under,
    \* the argument more of pfq_xmit
    px_more,
    \* the same for pfq_lazy_xmit_exec
    lz_queue, lz_under

lockVars == <<bx_txq, bx_under, px_more, lz_queue, lz_under>>

VARIABLES
    \* one call of serialize (pfq-lang.hpp): the predicate, the index n, position,
    \* and the pair returned
    ser_in, ser_n, ser_pc, ser_out

serVars == <<ser_in, ser_n, ser_pc, ser_out>>

VARIABLES
    \* one batch through full_batch_xmit and the end of the drain: position, the
    \* batch (buffers by number), the locals n and ret of the running
    \* pfq_batch_xmit, total, the value full_batch_xmit returned, give-up, and the
    \* pfq_batch_xmit calls made
    fb_pc, fb_batch, fb_n, fb_sent, fb_total, fb_ret, fb_giveup, fb_rounds,
    \* per buffer: skb->users; the references the engine holds, the driver holds
    \* and the pool holds; the pfq_kfree_skb_pool calls made on it; and what
    \* ndo_start_xmit returned each time it was given the buffer
    fb_users, fb_held, fb_drv, fb_pool, fb_gave, fb_hist

refVars == <<fb_pc, fb_batch, fb_n, fb_sent, fb_total, fb_ret, fb_giveup, fb_rounds,
             fb_users, fb_held, fb_drv, fb_pool, fb_gave, fb_hist>>

\* what the functions that take TX queue locks leave alone, besides the pool and
\* the ring
restVars == <<readVars, serVars, refVars>>

extVars == <<readVars, lockVars, serVars, refVars>>

fwdVars == <<batchVars, lazyVars, extVars>>

vars == <<poolVars, ringVars, fwdVars>>

\* no drain is followed byte by byte
ReadOff ==
    /\ rd_debug = FALSE /\ rd_lens = <<>> /\ rd_pc = "off"
    /\ rd_ptr = 0 /\ rd_len = 0 /\ rd_hi = 0 /\ rd_stop = "none"

\* no TX queue lock is held and nothing was given to a driver
LockOff ==
    /\ bx_txq = -1 /\ bx_under = {} /\ px_more = FALSE
    /\ lz_queue = -1 /\ lz_under = {}

\* no predicate is serialized
SerOff ==
    /\ ser_in = <<>> /\ ser_n = 0 /\ ser_pc = "off" /\ ser_out = <<>>

\* no batch is followed through full_batch_xmit
RefOff ==
    /\ fb_pc = "off" /\ fb_batch = <<>> /\ fb_n = 0 /\ fb_sent = 0 /\ fb_total = 0
    /\ fb_ret = 0 /\ fb_giveup = FALSE /\ fb_rounds = 0
    /\ fb_users = <<>> /\ fb_held = <<>> /\ fb_drv = <<>> /\ fb_pool = <<>>
    /\ fb_gave = <<>> /\ fb_hist = <<>>

RestOff == ReadOff /\ SerOff /\ RefOff

ExtOff == ReadOff /\ LockOff /\ SerOff /\ RefOff

Buffers == 1..MaxPush
Slots == 0..(PoolSize - 1)

(* ------------------------- pf_q-skbuff-pool.h -------------------------- *)

\* a __pool_next that wraps one slot early
__pool_next_short(size, i) ==
    LET n == i + 1 IN IF n >= size - 1 THEN 0 ELSE n

\* __pool_next
__pool_next(size, i) ==
    LET n == i + 1 IN IF n = size THEN 0 ELSE n

PoolStart ==
    /\ skbs = [i \in Slots |-> NULL]
    /\ p_idx = 0
    /\ c_idx = 0
    /\ users = [b \in Buffers |-> 1]
    /\ ppc = "idle" /\ pp = 0 /\ pcc = 0 /\ pskb = NULL
    /\ cpc = "idle" /\ cc = 0 /\ cp = 0 /\ cskb = NULL
    /\ os_free = 0
    /\ npushed = 0
    /\ popped = <<>>
    /\ slow_freed = {}
    /\ bug_on = FALSE
    /\ pop_ret = -1
    /\ push_ret = "none"

\* the slow path of push: SPARSE_INC(&memory_stats.os_free); kfree_skb(skb); return false
PushSlowFree_leak ==
    /\ os_free' = os_free + 1
    /\ slow_freed' = slow_freed
    /\ pskb' = NULL
    /\ ppc' = "idle"

PushSlowFree ==
    /\ os_free' = os_free + 1
    /\ slow_freed' = slow_freed \cup {pskb}
    /\ pskb' = NULL
    /\ ppc' = "idle"

\* pfq_skb_pool_push(pool, skb) is called with the next buffer; u is the buffer's
\* reference count (2 while the driver still holds the reference it was given).
\* First step: if (likely(pool->skbs)) p = load(p_idx)
PushLoadP(u) ==
    /\ ppc = "idle"
    /\ npushed < MaxPush
    /\ npushed' = npushed + 1
    /\ users' = [users EXCEPT ![npushed + 1] = u]
    /\ IF pool_on
       THEN /\ pskb' = npushed + 1
            /\ pp' = p_idx
            /\ ppc' = "load_c"
            /\ UNCHANGED <<os_free, slow_freed>>
       ELSE /\ os_free' = os_free + 1
            /\ slow_freed' = slow_freed \cup {npushed + 1}
            /\ UNCHANGED <<pskb, pp, ppc>>
    /\ UNCHANGED <<skbs, p_idx, c_idx, pool_on, pcc, cpc, cc, cp, cskb, popped, bug_on>>
    /\ push_ret' = IF pool_on THEN push_ret ELSE "false"
    /\ UNCHANGED pop_ret
    /\ UNCHANGED <<ringVars, fwdVars>>

\* a push that stores without comparing __pool_next(p) with c_idx
PushLoadC_unchecked ==
    /\ ppc = "load_c"
    /\ pcc' = c_idx
    /\ ppc' = "store_slot"
    /\ UNCHANGED <<os_free, slow_freed, pskb>>
    /\ UNCHANGED <<skbs, p_idx, c_idx, pool_on, users, pp, cpc, cc, cp, cskb, npushed,
                   popped, bug_on>>
    /\ UNCHANGED <<pop_ret, push_ret>>
    /\ UNCHANGED <<ringVars, fwdVars>>

\* c = load_acquire(c_idx); n = __pool_next(p); if (n != c) ... else the slow path
PushLoadC ==
    /\ ppc = "load_c"
    /\ pcc' = c_idx
    /\ IF __pool_next(PoolSize, pp) # c_idx
       THEN /\ ppc' = "store_slot"
            /\ UNCHANGED <<os_free, slow_freed, pskb>>
       ELSE PushSlowFree
    /\ UNCHANGED <<skbs, p_idx, c_idx, pool_on, users, pp, cpc, cc, cp, cskb, npushed,
                   popped, bug_on>>
    /\ push_ret' = IF __pool_next(PoolSize, pp) # c_idx THEN push_ret ELSE "false"
    /\ UNCHANGED pop_ret
    /\ UNCHANGED <<ringVars, fwdVars>>

\* BUG_ON(pool->skbs[p] != NULL); pool->skbs[p] = skb
PushStoreSlot ==
    /\ ppc = "store_slot"
    /\ bug_on' = (bug_on \/ skbs[pp] # NULL)
    /\ skbs' = [skbs EXCEPT ![pp] = pskb]
    /\ ppc' = "store_p"
    /\ UNCHANGED <<p_idx, c_idx, pool_on, users, pp, pcc, pskb, cpc, cc, cp, cskb, os_free,
                   npushed, popped, slow_freed>>
    /\ UNCHANGED <<pop_ret, push_ret>>
    /\ UNCHANGED <<ringVars, fwdVars>>

\* store_release(p_idx, n); return true
PushStoreP ==
    /\ ppc = "store_p"
    /\ p_idx' = __pool_next(PoolSize, pp)
    /\ pskb' = NULL
    /\ ppc' = "idle"
    /\ UNCHANGED <<skbs, c_idx, pool_on, users, pp, pcc, cpc, cc, cp, cskb, os_free,
                   npushed, popped, slow_freed, bug_on>>
    /\ push_ret' = "true"
    /\ UNCHANGED pop_ret
    /\ UNCHANGED <<ringVars, fwdVars>>

\* pfq_skb_pool_pop: if (likely(pool->skbs)) c = load(c_idx); else return NULL
PopLoadC ==
    /\ cpc = "idle"
    /\ IF pool_on
       THEN /\ cc' = c_idx
            /\ cpc' = "load_p"
            /\ UNCHANGED pop_ret
       ELSE /\ pop_ret' = NULL
            /\ UNCHANGED <<cc, cpc>>
    /\ UNCHANGED <<skbs, p_idx, c_idx, pool_on, users, ppc, pp, pcc, pskb, cp, cskb,
                   os_free, npushed, popped, slow_freed, bug_on, push_ret>>
    /\ UNCHANGED <<ringVars, fwdVars>>

\* p = load_acquire(p_idx); if (c != p) ... else return NULL
PopLoadP ==
    /\ cpc = "load_p"
    /\ cp' = p_idx
    /\ cpc' = IF cc # p_idx THEN "read_slot" ELSE "idle"
    /\ UNCHANGED <<skbs, p_idx, c_idx, pool_on, users, ppc, pp, pcc, pskb, cc, cskb,
                   os_free, npushed, popped, slow_freed, bug_on>>
    /\ pop_ret' = IF cc # p_idx THEN pop_ret ELSE NULL
    /\ UNCHANGED push_ret
    /\ UNCHANGED <<ringVars, fwdVars>>

\* the gate of pop: atomic_read(&skb->users) < 2
skb_recyclable_any(u) == TRUE

skb_recyclable(u) == u < 2

\* skb = pool->skbs[c]; if (atomic_read(&skb->users) < 2) ... else return NULL
PopReadSlot ==
    /\ cpc = "read_slot"
    /\ IF skbs[cc] = NULL
       THEN \* skb->users of a NULL pointer: the kernel oopses
            /\ cskb' = NULL
            /\ cpc' = "oops"
       ELSE IF skb_recyclable(users[skbs[cc]])
       THEN /\ cskb' = skbs[cc]
            /\ cpc' = "clear_slot"
       ELSE /\ cskb' = NULL
            /\ cpc' = "idle"
    /\ UNCHANGED <<skbs, p_idx, c_idx, pool_on, users, ppc, pp, pcc, pskb, cc, cp,
                   os_free, npushed, popped, slow_freed, bug_on>>
    /\ pop_ret' = IF skbs[cc] # NULL /\ ~skb_recyclable(users[skbs[cc]]) THEN NULL ELSE pop_ret
    /\ UNCHANGED push_ret
    /\ UNCHANGED <<ringVars, fwdVars>>

\* a pop that leaves the pointer in the slot it empties
PopClearSlot_keep ==
    /\ cpc = "clear_slot"
    /\ skbs' = skbs
    /\ cpc' = "store_c"
    /\ UNCHANGED <<p_idx, c_idx, pool_on, users, ppc, pp, pcc, pskb, cc, cp, cskb,
                   os_free, npushed, popped, slow_freed, bug_on>>
    /\ UNCHANGED <<pop_ret, push_ret>>
    /\ UNCHANGED <<ringVars, fwdVars>>

\* n = __pool_next(c); pool->skbs[c] = NULL
PopClearSlot ==
    /\ cpc = "clear_slot"
    /\ skbs' = [skbs EXCEPT ![cc] = NULL]
    /\ cpc' = "store_c"
    /\ UNCHANGED <<p_idx, c_idx, pool_on, users, ppc, pp, pcc, pskb, cc, cp, cskb,
                   os_free, npushed, popped, slow_freed, bug_on>>
    /\ UNCHANGED <<pop_ret, push_ret>>
    /\ UNCHANGED <<ringVars, fwdVars>>

\* store_release(c_idx, n); return skb
PopStoreC ==
    /\ cpc = "store_c"
    /\ c_idx' = __pool_next(PoolSize, cc)
    /\ popped' = Append(popped, cskb)
    /\ cskb' = NULL
    /\ cpc' = "idle"
    /\ UNCHANGED <<skbs, p_idx, pool_on, users, ppc, pp, pcc, pskb, cc, cp,
                   os_free, npushed, slow_freed, bug_on>>
    /\ pop_ret' = cskb
    /\ UNCHANGED push_ret
    /\ UNCHANGED <<ringVars, fwdVars>>

\* the driver completes a transmission and drops the reference it held on a
\* buffer that already sits in the pool (kfree_skb on users == 2)
DriverRelease(b) ==
    /\ users[b] = 2
    /\ \E i \in Slots : skbs[i] = b
    /\ users' = [users EXCEPT ![b] = 1]
    /\ UNCHANGED <<skbs, p_idx, c_idx, pool_on, ppc, pp, pcc, pskb, cpc, cc, cp, cskb,
                   os_free, npushed, popped, slow_freed, bug_on>>
    /\ UNCHANGED <<pop_ret, push_ret>>
    /\ UNCHANGED <<ringVars, fwdVars>>

(* --------------------------- pf_q-transmit.c --------------------------- *)

Threads == 1..NThreads
Halves == 0..1
Nsecs == 0..MaxTs

\* struct pfq_pkthdr_tx: a descriptor slot of the ring; len == 0 ends the live region
Empty == [len |-> 0, nsec |-> 0]

\* what user space may write into a half: 1..HalfSlots timestamps, one per packet
Fills == UNION {[1..n -> Nsecs] : n \in 1..HalfSlots}

\* the burst of a process whose threads flush concurrently: two packets, the second paced
FlushFills == {<<0, MaxTs>>}

\* the half after user space wrote the packets of f from its base, and the
\* terminating len = 0 behind them when there is room; later slots keep their bytes
WriteHalf(h, f) ==
    [i \in 1..HalfSlots |->
        IF i <= Len(f) THEN [len |-> PktLen, nsec |-> f[i]]
        ELSE IF i = Len(f) + 1 THEN Empty
        ELSE h[i]]

\* the half __pfq_queue_xmit drains: swap++ after the swap, then (swap & 1)
Half(p) == (idx[p] + 1) % 2

\* positions between the end of the swap phase and the clearing of the half
BodyPcs == {"loop", "loop_xmit", "wait", "alloc", "flush", "count", "clear"}
InBody(p) == pc[p] \in BodyPcs

\* giveup_tx_process
giveup_tx_process(p) == giveup[p]

\* traverse_tx_queue (release build): ptr < end && hdr->len != 0
traverse_tx_queue(h, i) == i <= HalfSlots /\ h[i].len # 0

\* the second traversal of __pfq_queue_xmit: descriptors from ptr on
RECURSIVE Remaining(_, _)
Remaining(h, i) ==
    IF traverse_tx_queue(h, i) THEN 1 + Remaining(h, i + 1) ELSE 0

\* a test that asks for a flush only when the batch is full
transmission_required_full(q, t, ts) == Len(q) = batch_len

\* a test that asks for a flush only when a timestamp is ahead of the clock
transmission_required_due(q, t, ts) == Len(q) > 0 /\ ts > t

\* transmission_required
transmission_required(q, t, ts) ==
    LET len == Len(q) IN len = batch_len \/ (len > 0 /\ ts > t)

\* what happens to one buffer in __pfq_xmit: the device is up, the TX queue is
\* stopped, and the value the driver's ndo_start_xmit would return
XmitCases ==
    { [up |-> TRUE,  stopped |-> FALSE, drv |-> "NETDEV_TX_OK"],
      [up |-> TRUE,  stopped |-> FALSE, drv |-> "NET_XMIT_DROP"],
      [up |-> TRUE,  stopped |-> FALSE, drv |-> "NETDEV_TX_BUSY"],
      [up |-> TRUE,  stopped |-> TRUE,  drv |-> "NETDEV_TX_OK"],
      [up |-> FALSE, stopped |-> FALSE, drv |-> "NETDEV_TX_OK"] }

AcceptCase == [up |-> TRUE, stopped |-> FALSE, drv |-> "NETDEV_TX_OK"]

\* dev_xmit_complete: the driver consumed the buffer
dev_xmit_complete(rc) == rc \in {"NETDEV_TX_OK", "NET_XMIT_DROP"}

\* __pfq_xmit: the driver's result if it was called and consumed the buffer,
\* otherwise the buffer is freed and -ENETDOWN is returned
__pfq_xmit_raw(c) ==
    IF c.up /\ ~c.stopped THEN c.drv ELSE "-ENETDOWN"

__pfq_xmit(c) ==
    IF c.up /\ ~c.stopped /\ dev_xmit_complete(c.drv) THEN c.drv ELSE "-ENETDOWN"

\* the driver results one pfq_batch_xmit call of n buffers can meet: every buffer
\* accepted, or k < n accepted and then one that is not (the call stops there)
Outcomes(n) ==
    { [i \in 1..n |-> AcceptCase] } \cup
    UNION { { [i \in 1..(k + 1) |-> IF i <= k THEN AcceptCase ELSE c] :
                c \in XmitCases \ {AcceptCase} } : k \in 0..(n - 1) }

\* pfq_batch_xmit: buffers submitted in order until one is not NETDEV_TX_OK;
\* returns the number accepted
RECURSIVE BatchXmitFrom(_, _, _)
BatchXmitFrom(b, cases, n) ==
    IF n > Len(b) THEN n - 1
    ELSE IF __pfq_xmit(cases[n]) = "NETDEV_TX_OK" THEN BatchXmitFrom(b, cases, n + 1)
    ELSE n - 1

pfq_batch_xmit(b, cases) == BatchXmitFrom(b, cases, 1)

\* a drop that removes the n buffers from the tail of the batch
pfq_skbuff_batch_drop_n_tail(b, n) == SubSeq(b, 1, Len(b) - n)

\* pfq_skbuff_batch_drop_n
pfq_skbuff_batch_drop_n(b, n) == SubSeq(b, n + 1, Len(b))

\* a full_batch_xmit that returns its total as soon as the driver refuses a buffer
full_batch_xmit_once(g, b, tot, cases) ==
    IF Len(b) = 0
    THEN [fin |-> TRUE, r |-> tot, b |-> b, total |-> tot, called |-> FALSE, sent |-> 0]
    ELSE IF g
    THEN [fin |-> TRUE, r |-> -tot - 1, b |-> b, total |-> tot, called |-> FALSE, sent |-> 0]
    ELSE LET s == pfq_batch_xmit(b, cases) IN
         IF s < Len(b)
         THEN [fin |-> TRUE, r |-> tot + s, b |-> pfq_skbuff_batch_drop_n(b, s),
               total |-> tot + s, called |-> TRUE, sent |-> s]
         ELSE [fin |-> FALSE, r |-> 0, b |-> pfq_skbuff_batch_drop_n(b, s),
               total |-> tot + s, called |-> TRUE, sent |-> s]

\* a full_batch_xmit that returns -total, not ~total, on give-up
full_batch_xmit_neg(g, b, tot, cases) ==
    IF Len(b) = 0
    THEN [fin |-> TRUE, r |-> tot, b |-> b, total |-> tot, called |-> FALSE, sent |-> 0]
    ELSE IF g
    THEN [fin |-> TRUE, r |-> -tot, b |-> b, total |-> tot, called |-> FALSE, sent |-> 0]
    ELSE LET s == pfq_batch_xmit(b, cases) IN
         IF s = 0
         THEN [fin |-> FALSE, r |-> 0, b |-> b, total |-> tot, called |-> TRUE, sent |-> 0]
         ELSE [fin |-> FALSE, r |-> 0, b |-> pfq_skbuff_batch_drop_n(b, s),
               total |-> tot + s, called |-> TRUE, sent |-> s]

\* one pass of the while loop of full_batch_xmit, on batch b with the running
\* total tot and give-up g: fin says the function returns (r is its value),
\* called that pfq_batch_xmit ran, sent what that call returned
full_batch_xmit(g, b, tot, cases) ==
    IF Len(b) = 0
    THEN [fin |-> TRUE, r |-> tot, b |-> b, total |-> tot, called |-> FALSE, sent |-> 0]
    ELSE IF g
    THEN [fin |-> TRUE, r |-> -tot - 1, b |-> b, total |-> tot, called |-> FALSE, sent |-> 0]
    ELSE LET s == pfq_batch_xmit(b, cases) IN
         IF s = 0
         THEN [fin |-> FALSE, r |-> 0, b |-> b, total |-> tot, called |-> TRUE, sent |-> 0]
         ELSE [fin |-> FALSE, r |-> 0, b |-> pfq_skbuff_batch_drop_n(b, s),
               total |-> tot + s, called |-> TRUE, sent |-> s]

\* tot_sent += sent, without undoing the complement of an interrupted total
SentOf_raw(r) == r

\* tot_sent += (sent >= 0 ? sent : ~sent)
SentOf(r) == IF r >= 0 THEN r ELSE -r - 1

\* a swap wait that does not look at give-up
swap_tx_queue_and_wait_deaf(g, index, pr) ==
    IF index = pr THEN "pass" ELSE "spin"

\* one pass of the wait loop of swap_tx_queue_and_wait with a worker: the loop is
\* left when index == prod; otherwise pfq_relax(), and -EINTR on give-up
swap_tx_queue_and_wait(g, index, pr) ==
    IF index = pr THEN "pass" ELSE IF g THEN "eintr" ELSE "spin"

\* a wait_until that does not look at give-up
wait_until_deaf(g, t, ts) == IF t < ts THEN "spin" ELSE "ret"

\* a wait_until that returns after its first clock read
wait_until_nowait(g, t, ts) == "ret"

\* one pass of the loop of wait_until, t being the clock just read
wait_until(g, t, ts) ==
    IF g THEN "ret" ELSE IF t < ts THEN "spin" ELSE "ret"

\* a drain that leaves the half as it found it
clear_queue_skipped(h) == h

\* clear the queue: hdr->len = 0 in the first descriptor of the half
clear_queue(h) == [h EXCEPT ![1].len = 0]

\* a drain that returns the complement of tot_sent when give-up cut it short
DrainReturn_marked(tot, wasCancelled) == IF wasCancelled THEN -tot - 1 ELSE tot

\* the value __pfq_queue_xmit returns after the drain: return tot_sent
DrainReturn(tot, wasCancelled) == tot

\* history of a drain after one pass of full_batch_xmit
NoteXmit(p, r) ==
    /\ first_rej' = IF r.called /\ r.sent < Len(batch[p]) /\ first_rej[p] = -1
                    THEN [first_rej EXCEPT ![p] = tot_sent[p] + total[p] + r.sent]
                    ELSE first_rej
    /\ sub_after_giveup' =
          [sub_after_giveup EXCEPT ![p] = @ \/ (giveup_tx_process(p) /\ r.called)]
    /\ cancelled' = [cancelled EXCEPT ![p] = @ \/ (r.fin /\ r.r < 0)]
    /\ accepted' = IF r.called
                   THEN [accepted EXCEPT ![p] = @ \o SubSeq(batch[p], 1, r.sent)]
                   ELSE accepted
    /\ early' = [early EXCEPT ![p] = @ \/
                    (r.called /\ \E i \in 1..Len(batch[p]) :
                        /\ i <= r.sent + 1
                        /\ ring[Half(p)][batch[p][i]].nsec > clock)]
    /\ fbx_ret' = IF r.fin THEN [fbx_ret EXCEPT ![p] = r.r] ELSE fbx_ret
    /\ batch0' = IF total[p] = 0 THEN [batch0 EXCEPT ![p] = batch[p]] ELSE batch0

RingStart ==
    /\ ring = [h \in Halves |-> [i \in 1..HalfSlots |-> Empty]]
    /\ prod = 0 /\ cons = 0
    /\ giveup = [p \in Threads |-> FALSE]
    /\ clock = 0
    /\ sent = 0 /\ disc = 0 /\ abrt = 0
    /\ pc = [p \in Threads |-> "idle"]
    /\ idx = [p \in Threads |-> 0]
    /\ ptr = [p \in Threads |-> 1]
    /\ last_ts = [p \in Threads |-> 0]
    /\ now = [p \in Threads |-> 0]
    /\ batch = [p \in Threads |-> <<>>]
    /\ tot_sent = [p \in Threads |-> 0]
    /\ ldisc = [p \in Threads |-> 0]
    /\ total = [p \in Threads |-> 0]
    /\ ret = [p \in Threads |-> 0]
    /\ fret = [p \in Threads |-> 0]
    /\ ustate = "idle"
    /\ first_rej = [p \in Threads |-> -1]
    /\ alloc_failed = [p \in Threads |-> FALSE]
    /\ sub_after_giveup = [p \in Threads |-> FALSE]
    /\ cancelled = [p \in Threads |-> FALSE]
    /\ respun = [p \in Threads |-> FALSE]
    /\ accepted = [p \in Threads |-> <<>>]
    /\ early = [p \in Threads |-> FALSE]
    /\ fbx_ret = [p \in Threads |-> 0]
    /\ batch0 = [p \in Threads |-> <<>>]
    /\ eintr_half = -1

\* the drain body starts: batch initialised, now = ktime_get_real(), ptr = begin
EnterBody(p) ==
    /\ pc' = [pc EXCEPT ![p] = "loop"]
    /\ ptr' = [ptr EXCEPT ![p] = 1]
    /\ batch' = [batch EXCEPT ![p] = <<>>]
    /\ now' = [now EXCEPT ![p] = clock]
    /\ tot_sent' = [tot_sent EXCEPT ![p] = 0]
    /\ ldisc' = [ldisc EXCEPT ![p] = 0]

\* the kernel worker calls __pfq_queue_xmit with its cpu; swap_tx_queue_and_wait
\* starts with *index = add_fetch(cons, 1)
WorkerCall(p) ==
    /\ task /\ p = 1
    /\ pc[p] = "idle"
    /\ cons < MaxCons
    /\ cons' = cons + 1
    /\ idx' = [idx EXCEPT ![p] = cons + 1]
    /\ pc' = [pc EXCEPT ![p] = "swap_wait"]
    /\ UNCHANGED <<ring, prod, burst, task, dev_ok, mt, giveup, clock, sent, disc, abrt, ptr,
                   last_ts, now, batch, tot_sent, ldisc, total, ret, fret, ustate,
                   first_rej, alloc_failed, sub_after_giveup, cancelled, respun,
                   accepted, early, fbx_ret, batch0, eintr_half>>
    /\ UNCHANGED <<poolVars, fwdVars>>

\* one pass of the wait loop of swap_tx_queue_and_wait: leave when prod == index,
\* else pfq_relax() and return -EINTR on give-up
SwapWait(p) ==
    /\ pc[p] = "swap_wait"
    /\ LET w == swap_tx_queue_and_wait(giveup_tx_process(p), idx[p], prod) IN
       /\ IF w = "pass"
          THEN /\ EnterBody(p)
               /\ UNCHANGED <<ret, eintr_half>>
          ELSE IF w = "eintr"
          THEN /\ ret' = [ret EXCEPT ![p] = -EINTR]
               /\ pc' = [pc EXCEPT ![p] = "intr"]
               /\ eintr_half' = Half(p)
               /\ UNCHANGED <<ptr, batch, now, tot_sent, ldisc>>
          ELSE UNCHANGED <<pc, ptr, batch, now, tot_sent, ldisc, ret, eintr_half>>
       /\ respun' = [respun EXCEPT ![p] = @ \/ (giveup_tx_process(p) /\ w = "spin")]
    /\ UNCHANGED <<ring, prod, cons, burst, task, dev_ok, mt, giveup, clock, sent, disc, abrt,
                   idx, last_ts, total, fret, ustate, first_rej, alloc_failed,
                   sub_after_giveup, cancelled>>
    /\ UNCHANGED <<accepted, early, fbx_ret, batch0>>
    /\ UNCHANGED <<poolVars, fwdVars>>

\* a pfq_queue_flush that does not look at the task bound to the ring
pfq_queue_flush_ungated(p) ==
    /\ pc[p] = "idle"
    /\ IF task THEN p # 1 ELSE (p = 1 \/ mt)
    /\ ~dev_ok \/ cons < MaxCons
    /\ IF ~dev_ok
       THEN /\ fret' = [fret EXCEPT ![p] = -EPERM]
            /\ UNCHANGED <<cons, idx, pc>>
       ELSE /\ cons' = cons + 1
            /\ idx' = [idx EXCEPT ![p] = cons + 1]
            /\ pc' = [pc EXCEPT ![p] = "store_prod"]
            /\ UNCHANGED fret
    /\ UNCHANGED <<ring, prod, burst, task, dev_ok, mt, giveup, clock, sent, disc, abrt, ptr,
                   last_ts, now, batch, tot_sent, ldisc, total, ret, ustate,
                   first_rej, alloc_failed, sub_after_giveup, cancelled, respun,
                   accepted, early, fbx_ret, batch0, eintr_half>>
    /\ UNCHANGED <<poolVars, fwdVars>>

\* pfq_queue_flush: nothing to do when a worker owns the ring, -EPERM when the
\* device is gone, else pfq_queue_xmit without a worker: *index = add_fetch(cons, 1)
pfq_queue_flush(p) ==
    /\ pc[p] = "idle"
    /\ IF task THEN p # 1 ELSE (p = 1 \/ mt)
    /\ task \/ ~dev_ok \/ cons < MaxCons
    /\ IF task
       THEN /\ fret' = [fret EXCEPT ![p] = 0]
            /\ UNCHANGED <<cons, idx, pc>>
       ELSE IF ~dev_ok
       THEN /\ fret' = [fret EXCEPT ![p] = -EPERM]
            /\ UNCHANGED <<cons, idx, pc>>
       ELSE /\ cons' = cons + 1
            /\ idx' = [idx EXCEPT ![p] = cons + 1]
            /\ pc' = [pc EXCEPT ![p] = "store_prod"]
            /\ UNCHANGED fret
    /\ UNCHANGED <<ring, prod, burst, task, dev_ok, mt, giveup, clock, sent, disc, abrt, ptr,
                   last_ts, now, batch, tot_sent, ldisc, total, ret, ustate,
                   first_rej, alloc_failed, sub_after_giveup, cancelled, respun,
                   accepted, early, fbx_ret, batch0, eintr_half>>
    /\ UNCHANGED <<poolVars, fwdVars>>

\* swap_tx_queue_and_wait without a worker: store(prod, 1), no wait
StoreProd(p) ==
    /\ pc[p] = "store_prod"
    /\ prod' = 1
    /\ EnterBody(p)
    /\ UNCHANGED <<ring, cons, burst, task, dev_ok, mt, giveup, clock, sent, disc, abrt, idx,
                   last_ts, total, ret, fret, ustate, first_rej, alloc_failed,
                   sub_after_giveup, cancelled, respun,
                   accepted, early, fbx_ret, batch0, eintr_half>>
    /\ UNCHANGED <<poolVars, fwdVars>>

\* head of the Tx loop: traverse_tx_queue, last_ts = hdr->nsec, transmission_required
TxLoop(p) ==
    /\ pc[p] = "loop"
    /\ LET h == ring[Half(p)] IN
       IF traverse_tx_queue(h, ptr[p])
       THEN LET ts == h[ptr[p]].nsec IN
            /\ last_ts' = [last_ts EXCEPT ![p] = ts]
            /\ pc' = [pc EXCEPT ![p] =
                        IF transmission_required(batch[p], now[p], ts) THEN "loop_xmit"
                        ELSE IF ts > now[p] THEN "wait" ELSE "alloc"]
       ELSE /\ pc' = [pc EXCEPT ![p] = "flush"]
            /\ UNCHANGED last_ts
    /\ total' = [total EXCEPT ![p] = 0]
    /\ UNCHANGED <<ring, prod, cons, burst, task, dev_ok, mt, giveup, clock, sent, disc, abrt,
                   idx, ptr, now, batch, tot_sent, ldisc, ret, fret, ustate, first_rej,
                   alloc_failed, sub_after_giveup, cancelled, respun,
                   accepted, early, fbx_ret, batch0, eintr_half>>
    /\ UNCHANGED <<poolVars, fwdVars>>

\* full_batch_xmit called from the Tx loop, one pass of its loop per step; on
\* return tot_sent += (sent >= 0 ? sent : ~sent); if (sent < 0) break
LoopXmit(p, cases) ==
    /\ pc[p] = "loop_xmit"
    /\ LET r == full_batch_xmit(giveup_tx_process(p), batch[p], total[p], cases) IN
       /\ batch' = [batch EXCEPT ![p] = r.b]
       /\ NoteXmit(p, r)
       /\ IF r.fin
          THEN /\ tot_sent' = [tot_sent EXCEPT ![p] = @ + SentOf(r.r)]
               /\ total' = [total EXCEPT ![p] = 0]
               /\ pc' = [pc EXCEPT ![p] =
                           IF r.r < 0 THEN "flush"
                           ELSE IF last_ts[p] > now[p] THEN "wait" ELSE "alloc"]
          ELSE /\ total' = [total EXCEPT ![p] = r.total]
               /\ UNCHANGED <<tot_sent, pc>>
    /\ UNCHANGED <<ring, prod, cons, burst, task, dev_ok, mt, giveup, clock, sent, disc, abrt,
                   idx, ptr, last_ts, now, ldisc, ret, fret, ustate, alloc_failed,
                   respun, eintr_half>>
    /\ UNCHANGED <<poolVars, fwdVars>>

\* one pass of the loop of wait_until: now = ktime_get_real(); return on give-up
\* or when now >= ts, else pfq_relax()
WaitUntil(p) ==
    /\ pc[p] = "wait"
    /\ now' = [now EXCEPT ![p] = clock]
    /\ LET w == wait_until(giveup_tx_process(p), clock, last_ts[p]) IN
       /\ pc' = [pc EXCEPT ![p] = IF w = "ret" THEN "alloc" ELSE "wait"]
       /\ respun' = [respun EXCEPT ![p] = @ \/ (giveup_tx_process(p) /\ w = "spin")]
    /\ UNCHANGED <<ring, prod, cons, burst, task, dev_ok, mt, giveup, clock, sent, disc, abrt,
                   idx, ptr, last_ts, batch, tot_sent, ldisc, total, ret, fret, ustate,
                   first_rej, alloc_failed, sub_after_giveup, cancelled, eintr_half>>
    /\ UNCHANGED <<accepted, early, fbx_ret, batch0>>
    /\ UNCHANGED <<poolVars, fwdVars>>

\* an allocation step that moves ptr past the descriptor whose allocation failed
AllocPush_skip(p, ok) ==
    /\ pc[p] = "alloc"
    /\ IF ok
       THEN /\ batch' = [batch EXCEPT ![p] = Append(@, ptr[p])]
            /\ ptr' = [ptr EXCEPT ![p] = @ + 1]
            /\ pc' = [pc EXCEPT ![p] = "loop"]
            /\ UNCHANGED alloc_failed
       ELSE /\ alloc_failed' = [alloc_failed EXCEPT ![p] = TRUE]
            /\ pc' = [pc EXCEPT ![p] = "flush"]
            /\ ptr' = [ptr EXCEPT ![p] = @ + 1]
            /\ UNCHANGED batch
    /\ UNCHANGED <<ring, prod, cons, burst, task, dev_ok, mt, giveup, clock, sent, disc, abrt,
                   idx, last_ts, now, tot_sent, ldisc, total, ret, fret, ustate,
                   first_rej, sub_after_giveup, cancelled, respun,
                   accepted, early, fbx_ret, batch0, eintr_half>>
    /\ UNCHANGED <<poolVars, fwdVars>>

\* pfq_tx_alloc_skb, fill the skb, push it into the batch, move ptr to the next
\* packet; break when the allocation fails
AllocPush(p, ok) ==
    /\ pc[p] = "alloc"
    /\ IF ok
       THEN /\ batch' = [batch EXCEPT ![p] = Append(@, ptr[p])]
            /\ ptr' = [ptr EXCEPT ![p] = @ + 1]
            /\ pc' = [pc EXCEPT ![p] = "loop"]
            /\ UNCHANGED alloc_failed
       ELSE /\ alloc_failed' = [alloc_failed EXCEPT ![p] = TRUE]
            /\ pc' = [pc EXCEPT ![p] = "flush"]
            /\ UNCHANGED <<batch, ptr>>
    /\ UNCHANGED <<ring, prod, cons, burst, task, dev_ok, mt, giveup, clock, sent, disc, abrt,
                   idx, last_ts, now, tot_sent, ldisc, total, ret, fret, ustate,
                   first_rej, sub_after_giveup, cancelled, respun,
                   accepted, early, fbx_ret, batch0, eintr_half>>
    /\ UNCHANGED <<poolVars, fwdVars>>

\* flush the current batch: full_batch_xmit after the Tx loop, one pass per step
FinalXmit(p, cases) ==
    /\ pc[p] = "flush"
    /\ LET r == full_batch_xmit(giveup_tx_process(p), batch[p], total[p], cases) IN
       /\ batch' = [batch EXCEPT ![p] = r.b]
       /\ NoteXmit(p, r)
       /\ IF r.fin
          THEN /\ tot_sent' = [tot_sent EXCEPT ![p] = @ + SentOf(r.r)]
               /\ total' = [total EXCEPT ![p] = 0]
               /\ pc' = [pc EXCEPT ![p] = "count"]
          ELSE /\ total' = [total EXCEPT ![p] = r.total]
               /\ UNCHANGED <<tot_sent, pc>>
    /\ UNCHANGED <<ring, prod, cons, burst, task, dev_ok, mt, giveup, clock, sent, disc, abrt,
                   idx, ptr, last_ts, now, ldisc, ret, fret, ustate, alloc_failed,
                   respun, eintr_half>>
    /\ UNCHANGED <<poolVars, fwdVars>>

\* free the packets left in the batch, count the descriptors left in the half,
\* update the sent and disc counters
CountDisc(p) ==
    /\ pc[p] = "count"
    /\ LET d == Len(batch[p]) + Remaining(ring[Half(p)], ptr[p]) IN
       /\ ldisc' = [ldisc EXCEPT ![p] = d]
       /\ disc' = disc + d
    /\ sent' = sent + tot_sent[p]
    /\ batch' = [batch EXCEPT ![p] = <<>>]
    /\ pc' = [pc EXCEPT ![p] = "clear"]
    /\ UNCHANGED <<ring, prod, cons, burst, task, dev_ok, mt, giveup, clock, abrt, idx, ptr,
                   last_ts, now, tot_sent, total, ret, fret, ustate, first_rej,
                   alloc_failed, sub_after_giveup, cancelled, respun,
                   accepted, early, fbx_ret, batch0, eintr_half>>
    /\ UNCHANGED <<poolVars, fwdVars>>

\* clear the queue: hdr->len = 0 at begin; return tot_sent
ClearQueue(p) ==
    /\ pc[p] = "clear"
    /\ ring' = [ring EXCEPT ![Half(p)] = clear_queue(@)]
    /\ ret' = [ret EXCEPT ![p] = DrainReturn(tot_sent[p], cancelled[p])]
    /\ pc' = [pc EXCEPT ![p] = "done"]
    /\ eintr_half' = -1
    /\ UNCHANGED <<prod, cons, burst, task, dev_ok, mt, giveup, clock, sent, disc, abrt, idx,
                   ptr, last_ts, now, batch, tot_sent, ldisc, total, fret, ustate,
                   first_rej, alloc_failed, sub_after_giveup, cancelled, respun,
                   accepted, early, fbx_ret, batch0>>
    /\ UNCHANGED <<poolVars, fwdVars>>

\* __pfq_queue_xmit has returned to its caller; pfq_queue_flush then returns 0
Return(p) ==
    /\ pc[p] \in {"done", "intr"}
    /\ pc' = [pc EXCEPT ![p] = "idle"]
    /\ fret' = IF task THEN fret ELSE [fret EXCEPT ![p] = 0]
    /\ idx' = [idx EXCEPT ![p] = 0]
    /\ ptr' = [ptr EXCEPT ![p] = 1]
    /\ last_ts' = [last_ts EXCEPT ![p] = 0]
    /\ now' = [now EXCEPT ![p] = 0]
    /\ tot_sent' = [tot_sent EXCEPT ![p] = 0]
    /\ ldisc' = [ldisc EXCEPT ![p] = 0]
    /\ ret' = [ret EXCEPT ![p] = 0]
    /\ first_rej' = [first_rej EXCEPT ![p] = -1]
    /\ alloc_failed' = [alloc_failed EXCEPT ![p] = FALSE]
    /\ sub_after_giveup' = [sub_after_giveup EXCEPT ![p] = FALSE]
    /\ cancelled' = [cancelled EXCEPT ![p] = FALSE]
    /\ respun' = [respun EXCEPT ![p] = FALSE]
    /\ accepted' = [accepted EXCEPT ![p] = <<>>]
    /\ early' = [early EXCEPT ![p] = FALSE]
    /\ fbx_ret' = [fbx_ret EXCEPT ![p] = 0]
    /\ batch0' = [batch0 EXCEPT ![p] = <<>>]
    /\ UNCHANGED <<ring, prod, cons, burst, task, dev_ok, mt, giveup, clock, sent, disc, abrt,
                   batch, total, ustate, eintr_half>>
    /\ UNCHANGED <<poolVars, fwdVars>>

\* user space may begin to fill the half prod & 1: the engine is not behind the
\* producer stamp, and a single-threaded process is not inside its own flush call
UserMayWrite ==
    /\ prod <= cons
    /\ task \/ mt \/ \A p \in Threads : pc[p] = "idle"

\* user space writes the descriptors of its burst into the half selected by prod & 1
UserFill ==
    /\ ustate = "idle"
    /\ UserMayWrite
    /\ ring' = [ring EXCEPT ![prod % 2] = WriteHalf(@, burst)]
    /\ ustate' = "filled"
    /\ UNCHANGED <<prod, cons, burst, task, dev_ok, mt, giveup, clock, sent, disc, abrt, pc, idx,
                   ptr, last_ts, now, batch, tot_sent, ldisc, total, ret, fret,
                   first_rej, alloc_failed, sub_after_giveup, cancelled, respun,
                   accepted, early, fbx_ret, batch0, eintr_half>>
    /\ UNCHANGED <<poolVars, fwdVars>>

\* user space commits the half it filled: store prod + 1
UserCommit ==
    /\ ustate = "filled"
    /\ task \/ mt \/ \A p \in Threads : pc[p] = "idle"
    /\ prod' = prod + 1
    /\ ustate' = "idle"
    /\ UNCHANGED <<ring, cons, burst, task, dev_ok, mt, giveup, clock, sent, disc, abrt, pc, idx,
                   ptr, last_ts, now, batch, tot_sent, ldisc, total, ret, fret,
                   first_rej, alloc_failed, sub_after_giveup, cancelled, respun,
                   accepted, early, fbx_ret, batch0, eintr_half>>
    /\ UNCHANGED <<poolVars, fwdVars>>

\* a signal becomes pending on thread p, or the worker is asked to stop
SetGiveup(p) ==
    /\ ~giveup[p]
    /\ p = 1 \/ mt
    /\ giveup' = [giveup EXCEPT ![p] = TRUE]
    /\ UNCHANGED <<ring, prod, cons, burst, task, dev_ok, mt, clock, sent, disc, abrt, pc, idx,
                   ptr, last_ts, now, batch, tot_sent, ldisc, total, ret, fret, ustate,
                   first_rej, alloc_failed, sub_after_giveup, cancelled, respun,
                   accepted, early, fbx_ret, batch0, eintr_half>>
    /\ UNCHANGED <<poolVars, fwdVars>>

\* the signal is handled, or the worker is started again, outside any drain
ClearGiveup(p) ==
    /\ giveup[p]
    /\ pc[p] = "idle"
    /\ giveup' = [giveup EXCEPT ![p] = FALSE]
    /\ UNCHANGED <<ring, prod, cons, burst, task, dev_ok, mt, clock, sent, disc, abrt, pc, idx,
                   ptr, last_ts, now, batch, tot_sent, ldisc, total, ret, fret, ustate,
                   first_rej, alloc_failed, sub_after_giveup, cancelled, respun,
                   accepted, early, fbx_ret, batch0, eintr_half>>
    /\ UNCHANGED <<poolVars, fwdVars>>

\* real time passes
Tick ==
    /\ clock < MaxClock
    /\ clock' = clock + 1
    /\ UNCHANGED <<ring, prod, cons, burst, task, dev_ok, mt, giveup, sent, disc, abrt, pc, idx,
                   ptr, last_ts, now, batch, tot_sent, ldisc, total, ret, fret, ustate,
                   first_rej, alloc_failed, sub_after_giveup, cancelled, respun,
                   accepted, early, fbx_ret, batch0, eintr_half>>
    /\ UNCHANGED <<poolVars, fwdVars>>

\* ---------------------------------------------------------------------------
\* pfq_batch_xmit, one buffer at a time

Devs == 1..NDevs
GcBufs == 1..MaxGc

\* no pfq_batch_xmit call is modelled
BatchIdle ==
    /\ bx_pc = "off" /\ bx_cases = <<>> /\ bx_n = 0 /\ bx_ret = 0
    /\ bx_hints = <<>> /\ bx_freed = 0
    /\ bx_kind = "batch" /\ bx_mask = {} /\ bx_lock = FALSE /\ bx_rc = "none"
    /\ bx_rel = <<>> /\ bx_handed = {}
    /\ bx_hw_queue = 0 /\ bx_real_num = 1 /\ bx_has_select = FALSE /\ bx_select = 0
    /\ bx_hw_arg = 0

BatchOff == use_xmit_more = FALSE /\ BatchIdle

\* no pfq_lazy_xmit_exec call is modelled
LazyOff ==
    /\ lz_pc = "off" /\ lz_ts = <<>>
    /\ lz_refs = [b \in GcBufs |-> <<>>]
    /\ lz_to_kernel = [b \in GcBufs |-> FALSE]
    /\ lz_xmit_todo = [b \in GcBufs |-> 0]
    /\ lz_users = [b \in GcBufs |-> 1]
    /\ lz_held = [b \in GcBufs |-> 0]
    /\ lz_n = 0 /\ lz_i = 0 /\ lz_j = 0 /\ lz_num = 0 /\ lz_txq = NULL
    /\ lz_sent_dev = 0 /\ lz_sent = 0 /\ lz_abrt = 0
    /\ lz_att = [d \in Devs |-> 0] /\ lz_handed = [d \in Devs |-> 0]
    /\ lz_last = [d \in Devs |-> 0] /\ lz_locks = [d \in Devs |-> 0]
    /\ lz_cnt = <<>> /\ lz_qmap = [b \in GcBufs |-> 0]
    /\ lz_call = "none" /\ lz_ret = 0
    /\ lz_more = [d \in Devs |-> "none"] /\ lz_early_false = [d \in Devs |-> FALSE]

\* the xmit_more argument pfq_batch_xmit passes for buffer n of len: n != last
pfq_xmit_more_len(n, len) == n # len + 1

pfq_xmit_more(n, len) == n # len

\* the xmit_more __pfq_xmit stores in the buffer: forced to 0 unless the build
\* defines PFQ_USE_XMIT_MORE
skb_xmit_more(use, more) == IF use THEN more ELSE FALSE

\* __pfq_xmit calls ndo_start_xmit: the device is up and the queue not stopped
HandedToDriver(c) == c.up /\ ~c.stopped

\* hw_queue >= dev->real_num_tx_queues: the int is converted to the unsigned type
\* of real_num_tx_queues, so a negative hw_queue compares as a value above any
\* number of queues
UnsignedGeq(hw_queue, real) == hw_queue < 0 \/ hw_queue >= real

\* __pfq_dev_cap_txqueue
__pfq_dev_cap_txqueue_last(real, hw_queue) ==
    IF UnsignedGeq(hw_queue, real) THEN real - 1 ELSE hw_queue

__pfq_dev_cap_txqueue(real, hw_queue) ==
    IF UnsignedGeq(hw_queue, real) THEN 0 ELSE hw_queue

\* pfq_pick_tx: the value left in *hw_queue
pfq_pick_tx(real, hw_queue, has_select, select) ==
    LET q == IF real # 1 /\ hw_queue = -1
             THEN (IF has_select THEN select ELSE 0)
             ELSE hw_queue
    IN  __pfq_dev_cap_txqueue(real, q)

\* for_each_skbuff / for_each_skbuff_bitmask: the position visited after n
NextIdx(mask, n, len) ==
    IF \E i \in mask : i > n /\ i <= len
    THEN CHOOSE i \in mask : i > n /\ i <= len /\ \A k \in mask : (k > n /\ k <= len) => i <= k
    ELSE len + 1

\* for_each_skbuff_from(ret + 1, ...): the first position (from 1) the intr loop frees
intr_first_ret(r) == r + 1

intr_first(r) == r + 2

\* the queue is picked and locked, and the loop entered
BxCall ==
    /\ bx_pc = "call"
    /\ bx_hw_queue' = pfq_pick_tx(bx_real_num, bx_hw_queue, bx_has_select, bx_select)
    /\ LET first == NextIdx(bx_mask, 0, Len(bx_cases))
       IN  IF first > Len(bx_cases)
           THEN /\ bx_pc' = "done"
                /\ bx_lock' = FALSE
                /\ UNCHANGED bx_n
           ELSE /\ bx_pc' = "loop"
                /\ bx_lock' = TRUE
                /\ bx_n' = first
    /\ UNCHANGED <<use_xmit_more, bx_cases, bx_ret, bx_hints, bx_freed, bx_kind, bx_mask,
                   bx_rc, bx_rel, bx_handed, bx_real_num, bx_has_select, bx_select, bx_hw_arg>>
    /\ bx_txq' = IF NextIdx(bx_mask, 0, Len(bx_cases)) > Len(bx_cases) THEN -1
                 ELSE pfq_pick_tx(bx_real_num, bx_hw_queue, bx_has_select, bx_select)
    /\ UNCHANGED bx_under
    /\ UNCHANGED <<poolVars, ringVars, lazyVars, restVars, px_more, lz_queue, lz_under>>

\* one iteration of for_each_skbuff in pfq_batch_xmit, or of
\* for_each_skbuff_bitmask in pfq_batch_xmit_by_mask
BxXmit ==
    /\ bx_pc = "loop"
    /\ LET c == bx_cases[bx_n]
           len == Len(bx_cases)
           arg == IF bx_kind = "batch" THEN pfq_xmit_more(bx_n, len) ELSE FALSE
           more == skb_xmit_more(use_xmit_more, arg)
           r == __pfq_xmit(c)
           ok == r = "NETDEV_TX_OK"
           nxt == NextIdx(bx_mask, bx_n, len)
       IN  /\ bx_hints' = IF HandedToDriver(c) THEN Append(bx_hints, more) ELSE bx_hints
           /\ bx_handed' = IF HandedToDriver(c) THEN bx_handed \cup {bx_n} ELSE bx_handed
           /\ bx_rc' = r
           /\ bx_ret' = IF ok THEN bx_ret + 1 ELSE bx_ret
           /\ bx_n' = IF ok THEN nxt ELSE bx_n
           /\ bx_freed' = IF r = "-ENETDOWN" THEN bx_freed + 1 ELSE bx_freed
           /\ bx_rel' = IF r = "-ENETDOWN" THEN [bx_rel EXCEPT ![bx_n] = @ + 1] ELSE bx_rel
           /\ bx_pc' = IF ~ok THEN "intr" ELSE IF nxt <= len THEN "loop" ELSE "done"
           /\ bx_lock' = (~ok \/ nxt <= len)
    /\ UNCHANGED <<use_xmit_more, bx_cases, bx_kind, bx_mask,
                   bx_hw_queue, bx_real_num, bx_has_select, bx_select, bx_hw_arg>>
    /\ bx_under' = IF HandedToDriver(bx_cases[bx_n])
                   THEN bx_under \cup {<<bx_hw_queue, bx_txq>>} ELSE bx_under
    /\ bx_txq' = IF bx_lock' THEN bx_txq ELSE -1
    /\ UNCHANGED <<poolVars, ringVars, lazyVars, restVars, px_more, lz_queue, lz_under>>

\* an intr path that returns without releasing the lock
BxIntr_held ==
    /\ bx_pc = "intr"
    /\ LET from == intr_first(bx_ret)
           len == Len(bx_cases)
       IN  /\ bx_rel' = [i \in 1..len |-> IF i >= from THEN bx_rel[i] + 1 ELSE bx_rel[i]]
           /\ bx_freed' = bx_freed + Cardinality({i \in 1..len : i >= from})
    /\ bx_lock' = TRUE
    /\ bx_pc' = "done"
    /\ UNCHANGED <<use_xmit_more, bx_cases, bx_n, bx_ret, bx_hints, bx_kind, bx_mask,
                   bx_rc, bx_handed, bx_hw_queue, bx_real_num, bx_has_select, bx_select, bx_hw_arg>>
    /\ bx_txq' = bx_txq
    /\ UNCHANGED bx_under
    /\ UNCHANGED <<poolVars, ringVars, lazyVars, restVars, px_more, lz_queue, lz_under>>

\* intr: the buffers from position ret + 1 (counted from 0) on are freed, and the
\* lock released
BxIntr ==
    /\ bx_pc = "intr"
    /\ LET from == intr_first(bx_ret)
           len == Len(bx_cases)
       IN  /\ bx_rel' = [i \in 1..len |-> IF i >= from THEN bx_rel[i] + 1 ELSE bx_rel[i]]
           /\ bx_freed' = bx_freed + Cardinality({i \in 1..len : i >= from})
    /\ bx_lock' = FALSE
    /\ bx_pc' = "done"
    /\ UNCHANGED <<use_xmit_more, bx_cases, bx_n, bx_ret, bx_hints, bx_kind, bx_mask,
                   bx_rc, bx_handed, bx_hw_queue, bx_real_num, bx_has_select, bx_select, bx_hw_arg>>
    /\ bx_txq' = -1
    /\ UNCHANGED bx_under
    /\ UNCHANGED <<poolVars, ringVars, lazyVars, restVars, px_more, lz_queue, lz_under>>

\* the batches a call can be given: what each buffer meets in __pfq_xmit
Batches == UNION { [1..l -> XmitCases] : l \in 1..MaxBatch }

\* the entry of a call: nothing submitted, nothing freed, the lock not yet taken
BatchEntry ==
    /\ pool_on = TRUE
    /\ PoolStart
    /\ RingStart
    /\ ExtOff
    /\ burst = <<>> /\ task = FALSE /\ dev_ok = TRUE /\ mt = FALSE
    /\ LazyOff
    /\ bx_pc = "call" /\ bx_n = 0 /\ bx_ret = 0 /\ bx_hints = <<>> /\ bx_freed = 0
    /\ bx_lock = FALSE /\ bx_rc = "none" /\ bx_handed = {}
    /\ bx_rel = [i \in 1..Len(bx_cases) |-> 0]
    /\ bx_hw_arg = bx_hw_queue

\* a pfq_batch_xmit call on a batch of 1..MaxBatch buffers, in either build
InitBatch ==
    /\ use_xmit_more \in BOOLEAN
    /\ bx_cases \in Batches
    /\ bx_kind = "batch" /\ bx_mask = 1..Len(bx_cases)
    /\ bx_hw_queue = 0 /\ bx_real_num = 1 /\ bx_has_select = FALSE /\ bx_select = 0
    /\ BatchEntry

NextBatch ==
    \/ BxCall
    \/ BxXmit
    \/ BxIntr

SpecBatch == InitBatch /\ [][NextBatch]_vars

\* a pfq_batch_xmit_by_mask call: any mask over the positions of the batch
InitMask ==
    /\ use_xmit_more \in BOOLEAN
    /\ bx_cases \in Batches
    /\ bx_kind = "mask" /\ bx_mask \in SUBSET (1..Len(bx_cases))
    /\ bx_hw_queue = 0 /\ bx_real_num = 1 /\ bx_has_select = FALSE /\ bx_select = 0
    /\ BatchEntry

SpecMask == InitMask /\ [][NextBatch]_vars

\* a pfq_batch_xmit call of one buffer on any device and requested queue
InitPick ==
    /\ use_xmit_more = TRUE
    /\ bx_cases \in [1..1 -> XmitCases]
    /\ bx_kind = "batch" /\ bx_mask = {1}
    /\ bx_hw_queue \in -2..MaxQueue
    /\ bx_real_num \in 1..MaxRealQueues
    /\ bx_has_select \in BOOLEAN
    /\ bx_select \in 0..MaxQueue
    /\ BatchEntry

SpecPick == InitPick /\ [][NextBatch]_vars

\* ---------------------------------------------------------------------------
\* lazy forward: pfq_lazy_xmit and pfq_lazy_xmit_exec

\* pfq_lazy_xmit: the log after one more annotation, unchanged when it is full
pfq_lazy_xmit_unchecked(log, d) ==
    [log EXCEPT !.dev = Append(@, d), !.xmit_todo = @ + 1]

pfq_lazy_xmit(log, d) ==
    IF Len(log.dev) >= Q_GC_LOG_QUEUE_LEN THEN log
    ELSE [log EXCEPT !.dev = Append(@, d), !.xmit_todo = @ + 1]

\* the log of a buffer annotated with the devices of ds, in order
RECURSIVE Annotated(_, _)
Annotated(ds, tk) ==
    IF ds = <<>> THEN [dev |-> <<>>, xmit_todo |-> 0, to_kernel |-> tk]
    ELSE pfq_lazy_xmit(Annotated(SubSeq(ds, 1, Len(ds) - 1), tk), ds[Len(ds)])

\* gc_count_dev_in_log: times dev occurs in log->dev
RECURSIVE gc_count_dev_in_log(_, _)
gc_count_dev_in_log(d, devs) ==
    IF devs = <<>> THEN 0
    ELSE (IF Head(devs) = d THEN 1 ELSE 0) + gc_count_dev_in_log(d, Tail(devs))

\* the annotations one buffer can carry when the commit starts
Logs ==
    { ds \in UNION { [1..l -> Devs] : l \in 0..Q_GC_LOG_QUEUE_LEN } :
        /\ \A k \in 1..(Len(ds) - 1) : ds[k] <= ds[k + 1]
        /\ gc_count_dev_in_log(1, ds) <= 1
        /\ \A d \in Devs : gc_count_dev_in_log(d, ds) <= MaxRefs }

\* the target lists a commit can be given
Targets == { <<1, 2>>, <<2>> }

\* buffers of the pool whose log references d: cnt of the target d
RECURSIVE TargetCnt(_, _, _)
TargetCnt(d, refs, b) ==
    IF b = 0 THEN 0 ELSE gc_count_dev_in_log(d, refs[b]) + TargetCnt(d, refs, b - 1)

\* the logs of the pool when the commit starts
PoolLogs ==
    { refs \in [GcBufs -> Logs] :
        TargetCnt(1, refs, MaxGc) + TargetCnt(2, refs, MaxGc) <= MaxMarks }

\* to_clone and the xmit_todo left by `log->to_kernel || log->xmit_todo-- > 1`
to_clone_never(tk, todo) == [clone |-> FALSE, todo |-> todo - 1]

to_clone(tk, todo) ==
    IF tk THEN [clone |-> TRUE, todo |-> todo]
    ELSE [clone |-> todo > 1, todo |-> todo - 1]

\* `if (!txq)`: the TX queue lock is taken only while none is held
lock_needed_always(txq) == TRUE

lock_needed(txq) == txq = NULL

\* what one submission adds to: sent when there is a buffer and __pfq_xmit
\* returns NETDEV_TX_OK, global_stats.abrt otherwise
fwd_result_silent(nskb, r) ==
    IF ~nskb THEN "none" ELSE IF r = "NETDEV_TX_OK" THEN "sent" ELSE "abrt"

fwd_result(nskb, r) == IF nskb /\ r = "NETDEV_TX_OK" THEN "sent" ELSE "abrt"

\* `++sent_dev != ts->cnt[n]`, with sent_dev the value after the increment
lazy_xmit_more_post(sent_dev, cnt) == sent_dev - 1 # cnt

lazy_xmit_more(sent_dev, cnt) == sent_dev # cnt

\* for(n...): the next target device, or the return
LzDev ==
    /\ lz_pc = "dev"
    /\ IF lz_n > Len(lz_ts)
       THEN /\ lz_pc' = "done"
            /\ UNCHANGED <<lz_i, lz_sent_dev, lz_txq>>
       ELSE /\ lz_pc' = "skb"
            /\ lz_i' = 1
            /\ lz_sent_dev' = 0
            /\ lz_txq' = NULL
    /\ UNCHANGED <<lz_ts, lz_refs, lz_to_kernel, lz_xmit_todo, lz_users, lz_held,
                   lz_n, lz_j, lz_num, lz_sent, lz_abrt,
                   lz_att, lz_handed, lz_last, lz_locks>>
    /\ UNCHANGED <<lz_cnt, lz_qmap, lz_call, lz_ret, lz_more, lz_early_false>>
    /\ lz_queue' = IF lz_n > Len(lz_ts) THEN lz_queue ELSE -1
    /\ UNCHANGED lz_under
    /\ UNCHANGED <<poolVars, ringVars, batchVars, restVars, bx_txq, bx_under, px_more>>

\* for(i...): select the buffer, skip it when the device is not in its log, and
\* take the TX queue lock at the first buffer that is forwarded
LzSkb ==
    /\ lz_pc = "skb"
    /\ LET dev == lz_ts[lz_n]
           num == IF lz_i > MaxGc THEN 0 ELSE gc_count_dev_in_log(dev, lz_refs[lz_i])
       IN  IF lz_i > MaxGc
           THEN /\ lz_pc' = "unlock"
                /\ UNCHANGED <<lz_i, lz_j, lz_num, lz_txq, lz_locks>>
           ELSE IF num = 0
           THEN /\ lz_i' = lz_i + 1
                /\ lz_num' = 0
                /\ UNCHANGED <<lz_pc, lz_j, lz_txq, lz_locks>>
           ELSE /\ lz_num' = num
                /\ lz_j' = 0
                /\ lz_pc' = "fwd"
                /\ lz_txq' = dev
                /\ lz_locks' = IF lock_needed(lz_txq)
                               THEN [lz_locks EXCEPT ![dev] = @ + 1] ELSE lz_locks
                /\ UNCHANGED lz_i
    /\ UNCHANGED <<lz_ts, lz_refs, lz_to_kernel, lz_xmit_todo, lz_users, lz_held,
                   lz_n, lz_sent_dev, lz_sent, lz_abrt, lz_att, lz_handed, lz_last>>
    /\ UNCHANGED <<lz_cnt, lz_qmap, lz_call, lz_ret, lz_more, lz_early_false>>
    /\ lz_queue' = IF lz_pc' = "fwd" /\ lock_needed(lz_txq)
                   THEN pfq_pick_tx(LazyRealQueues, lz_qmap[lz_i], FALSE, 0)
                   ELSE lz_queue
    /\ UNCHANGED lz_under
    /\ UNCHANGED <<poolVars, ringVars, batchVars, restVars, bx_txq, bx_under, px_more>>

\* for(j...): one submission of the selected buffer: skb_clone (which can fail) or
\* skb_get, then __pfq_xmit, which consumes the reference whatever it returns
LzFwd(clone_ok, c) ==
    /\ lz_pc = "fwd"
    /\ LET dev == lz_ts[lz_n]
           b == lz_i
           tc == to_clone(lz_to_kernel[b], lz_xmit_todo[b])
           nskb == IF tc.clone THEN clone_ok ELSE TRUE
           r == __pfq_xmit(c)
           handed == nskb /\ HandedToDriver(c)
           res == fwd_result(nskb, r)
           more == skb_xmit_more(use_xmit_more, lazy_xmit_more(lz_sent_dev + 1, lz_cnt[lz_n]))
       IN  /\ (tc.clone \/ clone_ok)
           /\ lz_more' = IF handed
                         THEN [lz_more EXCEPT ![dev] = IF more THEN "more" ELSE "last"]
                         ELSE lz_more
           /\ lz_early_false' = IF handed /\ lz_more[dev] = "last"
                                THEN [lz_early_false EXCEPT ![dev] = TRUE]
                                ELSE lz_early_false
           /\ lz_sent_dev' = lz_sent_dev + 1
           /\ lz_xmit_todo' = [lz_xmit_todo EXCEPT ![b] = tc.todo]
           /\ lz_sent' = IF res = "sent" THEN lz_sent + 1 ELSE lz_sent
           /\ lz_abrt' = IF res = "abrt" THEN lz_abrt + 1 ELSE lz_abrt
           /\ lz_held' = IF ~tc.clone /\ nskb /\ r # "-ENETDOWN"
                         THEN [lz_held EXCEPT ![b] = @ + 1] ELSE lz_held
           /\ lz_users' = IF ~tc.clone /\ r # "-ENETDOWN"
                          THEN [lz_users EXCEPT ![b] = @ + 1] ELSE lz_users
           /\ lz_att' = [lz_att EXCEPT ![dev] = @ + 1]
           /\ lz_handed' = IF handed THEN [lz_handed EXCEPT ![dev] = @ + 1] ELSE lz_handed
           /\ lz_last' = IF nskb THEN [lz_last EXCEPT ![dev] = b] ELSE lz_last
           /\ lz_j' = lz_j + 1
           /\ IF lz_j + 1 < lz_num
              THEN UNCHANGED <<lz_pc, lz_i>>
              ELSE lz_pc' = "skb" /\ lz_i' = lz_i + 1
    /\ UNCHANGED <<lz_ts, lz_refs, lz_to_kernel, lz_n, lz_num, lz_txq, lz_locks>>
    /\ UNCHANGED <<lz_cnt, lz_qmap, lz_call, lz_ret>>
    /\ lz_under' = IF (to_clone(lz_to_kernel[lz_i], lz_xmit_todo[lz_i]).clone => clone_ok)
                      /\ HandedToDriver(c)
                   THEN lz_under \cup {<<lz_qmap[lz_i], lz_queue>>} ELSE lz_under
    /\ UNCHANGED lz_queue
    /\ UNCHANGED <<poolVars, ringVars, batchVars, restVars, bx_txq, bx_under, px_more>>

\* the end of the scan for one device: the lock, if taken, is released
LzUnlock ==
    /\ lz_pc = "unlock"
    /\ lz_txq' = NULL
    /\ lz_n' = lz_n + 1
    /\ lz_pc' = "dev"
    /\ UNCHANGED <<lz_ts, lz_refs, lz_to_kernel, lz_xmit_todo, lz_users, lz_held,
                   lz_i, lz_j, lz_num, lz_sent_dev, lz_sent, lz_abrt,
                   lz_att, lz_handed, lz_last, lz_locks>>
    /\ UNCHANGED <<lz_cnt, lz_qmap, lz_call, lz_ret, lz_more, lz_early_false>>
    /\ lz_queue' = -1
    /\ UNCHANGED lz_under
    /\ UNCHANGED <<poolVars, ringVars, batchVars, restVars, bx_txq, bx_under, px_more>>

\* the driver completes a transmission and drops the reference it was given
LzDriverFree(b) ==
    /\ lz_pc # "off"
    /\ lz_held[b] > 0
    /\ lz_held' = [lz_held EXCEPT ![b] = @ - 1]
    /\ lz_users' = [lz_users EXCEPT ![b] = @ - 1]
    /\ UNCHANGED <<lz_pc, lz_ts, lz_refs, lz_to_kernel, lz_xmit_todo,
                   lz_n, lz_i, lz_j, lz_num, lz_txq, lz_sent_dev, lz_sent, lz_abrt,
                   lz_att, lz_handed, lz_last, lz_locks>>
    /\ UNCHANGED <<lz_cnt, lz_qmap, lz_call, lz_ret, lz_more, lz_early_false>>
    /\ UNCHANGED <<poolVars, ringVars, batchVars, extVars>>

\* the entry of pfq_lazy_xmit_exec on the annotated pool: xmit_todo and ts->cnt as
\* the annotations left them, nothing submitted yet
LazyEntry ==
    /\ lz_xmit_todo = [b \in GcBufs |-> Annotated(lz_refs[b], lz_to_kernel[b]).xmit_todo]
    /\ lz_ts \in Targets
    /\ lz_users = [b \in GcBufs |-> 1]
    /\ lz_held = [b \in GcBufs |-> 0]
    /\ lz_pc = "dev" /\ lz_n = 1 /\ lz_i = 0 /\ lz_j = 0 /\ lz_num = 0 /\ lz_txq = NULL
    /\ lz_sent_dev = 0 /\ lz_sent = 0 /\ lz_abrt = 0
    /\ lz_att = [d \in Devs |-> 0] /\ lz_handed = [d \in Devs |-> 0]
    /\ lz_last = [d \in Devs |-> 0] /\ lz_locks = [d \in Devs |-> 0]
    /\ lz_cnt = [k \in 1..Len(lz_ts) |-> TargetCnt(lz_ts[k], lz_refs, MaxGc)]
    /\ lz_call = "none" /\ lz_ret = 0
    /\ lz_more = [d \in Devs |-> "none"] /\ lz_early_false = [d \in Devs |-> FALSE]

\* a commit on a GC pool of MaxGc annotated buffers
InitLazy ==
    /\ pool_on = TRUE
    /\ PoolStart
    /\ RingStart
    /\ ExtOff
    /\ burst = <<>> /\ task = FALSE /\ dev_ok = TRUE /\ mt = FALSE
    /\ BatchIdle
    /\ use_xmit_more = TRUE
    /\ lz_refs \in PoolLogs
    /\ lz_to_kernel \in [GcBufs -> BOOLEAN]
    /\ lz_qmap = [b \in GcBufs |-> 0]
    /\ LazyEntry

NextLazy ==
    \/ LzDev
    \/ LzSkb
    \/ \E clone_ok \in BOOLEAN, c \in XmitCases : LzFwd(clone_ok, c)
    \/ LzUnlock
    \/ \E b \in GcBufs : LzDriverFree(b)

SpecLazy == InitLazy /\ [][NextLazy]_vars

\* the log of buffer b as the state holds it
LogOf(b) == [dev |-> lz_refs[b], xmit_todo |-> lz_xmit_todo[b], to_kernel |-> lz_to_kernel[b]]

\* pfq_lazy_xmit returns 0 when the log is full, before anything is written
LogFull(b) == Len(lz_refs[b]) >= Q_GC_LOG_QUEUE_LEN

\* pfq_lazy_xmit(buff, dev, hw_queue) on buffer b of the pool
LazyXmit(b, d, hw) ==
    /\ lz_pc = "mark"
    /\ lz_refs' = [lz_refs EXCEPT ![b] = pfq_lazy_xmit(LogOf(b), d).dev]
    /\ lz_xmit_todo' = [lz_xmit_todo EXCEPT ![b] = pfq_lazy_xmit(LogOf(b), d).xmit_todo]
    /\ lz_qmap' = IF LogFull(b) THEN lz_qmap ELSE [lz_qmap EXCEPT ![b] = hw]
    /\ lz_ret' = IF LogFull(b) THEN 0 ELSE 1
    /\ lz_call' = "lazy_xmit"
    /\ UNCHANGED <<lz_pc, lz_ts, lz_to_kernel, lz_users, lz_held,
                   lz_n, lz_i, lz_j, lz_num, lz_txq, lz_sent_dev, lz_sent, lz_abrt,
                   lz_att, lz_handed, lz_last, lz_locks, lz_cnt, lz_more, lz_early_false>>
    /\ UNCHANGED <<poolVars, ringVars, batchVars, extVars>>

\* pfq_batch_lazy_xmit(queue, dev, hw_queue): pfq_lazy_xmit on every buffer of the
\* pool; returns the number annotated
LazyBatchXmit(d, hw) ==
    /\ lz_pc = "mark"
    /\ lz_refs' = [b \in GcBufs |-> pfq_lazy_xmit(LogOf(b), d).dev]
    /\ lz_xmit_todo' = [b \in GcBufs |-> pfq_lazy_xmit(LogOf(b), d).xmit_todo]
    /\ lz_qmap' = [b \in GcBufs |-> IF LogFull(b) THEN lz_qmap[b] ELSE hw]
    /\ lz_ret' = Cardinality({b \in GcBufs : ~LogFull(b)})
    /\ lz_call' = "batch_lazy_xmit"
    /\ UNCHANGED <<lz_pc, lz_ts, lz_to_kernel, lz_users, lz_held,
                   lz_n, lz_i, lz_j, lz_num, lz_txq, lz_sent_dev, lz_sent, lz_abrt,
                   lz_att, lz_handed, lz_last, lz_locks, lz_cnt, lz_more, lz_early_false>>
    /\ UNCHANGED <<poolVars, ringVars, batchVars, extVars>>

\* the capture path annotating a pool of fresh buffers
InitMark ==
    /\ pool_on = TRUE
    /\ PoolStart
    /\ RingStart
    /\ ExtOff
    /\ burst = <<>> /\ task = FALSE /\ dev_ok = TRUE /\ mt = FALSE
    /\ BatchOff
    /\ lz_pc = "mark" /\ lz_ts = <<>>
    /\ lz_refs = [b \in GcBufs |-> <<>>]
    /\ lz_to_kernel = [b \in GcBufs |-> FALSE]
    /\ lz_xmit_todo = [b \in GcBufs |-> 0]
    /\ lz_users = [b \in GcBufs |-> 1]
    /\ lz_held = [b \in GcBufs |-> 0]
    /\ lz_n = 0 /\ lz_i = 0 /\ lz_j = 0 /\ lz_num = 0 /\ lz_txq = NULL
    /\ lz_sent_dev = 0 /\ lz_sent = 0 /\ lz_abrt = 0
    /\ lz_att = [d \in Devs |-> 0] /\ lz_handed = [d \in Devs |-> 0]
    /\ lz_last = [d \in Devs |-> 0] /\ lz_locks = [d \in Devs |-> 0]
    /\ lz_cnt = <<>> /\ lz_qmap = [b \in GcBufs |-> 0]
    /\ lz_call = "none" /\ lz_ret = 0
    /\ lz_more = [d \in Devs |-> "none"] /\ lz_early_false = [d \in Devs |-> FALSE]

NextMark ==
    \/ \E b \in GcBufs, d \in Devs, hw \in 0..1 : LazyXmit(b, d, hw)
    \/ \E d \in Devs, hw \in 0..1 : LazyBatchXmit(d, hw)

SpecMark == InitMark /\ [][NextMark]_vars

\* a commit in either build, on a pool whose buffers all go, or all do not go,
\* to the kernel
InitHint ==
    /\ pool_on = TRUE
    /\ PoolStart
    /\ RingStart
    /\ ExtOff
    /\ burst = <<>> /\ task = FALSE /\ dev_ok = TRUE /\ mt = FALSE
    /\ BatchIdle
    /\ use_xmit_more \in BOOLEAN
    /\ lz_refs \in PoolLogs
    /\ \E tk \in BOOLEAN : lz_to_kernel = [b \in GcBufs |-> tk]
    /\ lz_qmap = [b \in GcBufs |-> 0]
    /\ LazyEntry

SpecHint == InitHint /\ [][NextLazy]_vars

Next ==
    \/ \E p \in Threads : WorkerCall(p)
    \/ \E p \in Threads : SwapWait(p)
    \/ \E p \in Threads : pfq_queue_flush(p)
    \/ \E p \in Threads : StoreProd(p)
    \/ \E p \in Threads : TxLoop(p)
    \/ \E p \in Threads : \E cases \in Outcomes(Len(batch[p])) : LoopXmit(p, cases)
    \/ \E p \in Threads : WaitUntil(p)
    \/ \E p \in Threads : \E ok \in BOOLEAN : AllocPush(p, ok)
    \/ \E p \in Threads : \E cases \in Outcomes(Len(batch[p])) : FinalXmit(p, cases)
    \/ \E p \in Threads : CountDisc(p)
    \/ \E p \in Threads : ClearQueue(p)
    \/ \E p \in Threads : Return(p)
    \/ UserFill
    \/ UserCommit
    \/ \E p \in Threads : SetGiveup(p)
    \/ \E p \in Threads : ClearGiveup(p)
    \/ Tick

\* a ring with or without a worker, whose device exists or not, used by a
\* single-threaded process
Init ==
    /\ pool_on = TRUE
    /\ PoolStart
    /\ RingStart
    /\ ExtOff
    /\ BatchOff
    /\ LazyOff
    /\ burst \in Fills
    /\ task \in BOOLEAN
    /\ dev_ok \in (IF task THEN {TRUE} ELSE BOOLEAN)
    /\ mt = FALSE

\* the same ring used by a process whose threads call pfq_queue_flush concurrently
InitFlush ==
    /\ pool_on = TRUE
    /\ PoolStart
    /\ RingStart
    /\ ExtOff
    /\ BatchOff
    /\ LazyOff
    /\ burst \in FlushFills
    /\ task \in BOOLEAN
    /\ dev_ok = TRUE
    /\ mt = TRUE

\* the steps of SpecFlush: those of Next, with a driver that accepts every buffer
\* and an allocator that never fails, and give-up raised on the first thread only
NextFlush ==
    \/ \E p \in Threads : WorkerCall(p)
    \/ \E p \in Threads : SwapWait(p)
    \/ \E p \in Threads : pfq_queue_flush(p)
    \/ \E p \in Threads : StoreProd(p)
    \/ \E p \in Threads : TxLoop(p)
    \/ \E p \in Threads : LoopXmit(p, [i \in 1..Len(batch[p]) |-> AcceptCase])
    \/ \E p \in Threads : WaitUntil(p)
    \/ \E p \in Threads : AllocPush(p, TRUE)
    \/ \E p \in Threads : FinalXmit(p, [i \in 1..Len(batch[p]) |-> AcceptCase])
    \/ \E p \in Threads : CountDisc(p)
    \/ \E p \in Threads : ClearQueue(p)
    \/ \E p \in Threads : Return(p)
    \/ UserFill
    \/ UserCommit
    \/ SetGiveup(1)
    \/ ClearGiveup(1)
    \/ Tick

Spec == Init /\ [][Next]_vars

SpecFlush == InitFlush /\ [][NextFlush]_vars

NextPool ==
    \/ \E u \in 1..2 : PushLoadP(u)
    \/ PushLoadC
    \/ PushStoreSlot
    \/ PushStoreP
    \/ PopLoadC
    \/ PopLoadP
    \/ PopReadSlot
    \/ PopClearSlot
    \/ PopStoreC
    \/ \E b \in Buffers : DriverRelease(b)

InitPool ==
    /\ pool_on \in BOOLEAN
    /\ PoolStart
    /\ RingStart
    /\ ExtOff
    /\ BatchOff
    /\ LazyOff
    /\ burst = <<>> /\ task = FALSE /\ dev_ok = TRUE /\ mt = FALSE

SpecPool == InitPool /\ [][NextPool]_vars

\* the steps of one thread inside __pfq_queue_xmit
DrainStep(p) ==
    \/ SwapWait(p)
    \/ StoreProd(p)
    \/ TxLoop(p)
    \/ \E cases \in Outcomes(Len(batch[p])) : LoopXmit(p, cases)
    \/ WaitUntil(p)
    \/ \E ok \in BOOLEAN : AllocPush(p, ok)
    \/ \E cases \in Outcomes(Len(batch[p])) : FinalXmit(p, cases)
    \/ CountDisc(p)
    \/ ClearQueue(p)

\* a pass of full_batch_xmit in which the driver accepts every buffer of the batch
AcceptXmit(p) ==
    \/ LoopXmit(p, [i \in 1..Len(batch[p]) |-> AcceptCase])
    \/ FinalXmit(p, [i \in 1..Len(batch[p]) |-> AcceptCase])

\* Spec with a scheduler that keeps running a thread that is inside a drain
SpecCancel == Init /\ [][Next]_vars /\ \A p \in Threads : WF_vars(DrainStep(p))

\* the burst of the drains followed to their return: three packets, the second
\* paced, so that a drain submits from the Tx loop, waits, and flushes
TermFills == {<<0, MaxTs, 0>>}

InitTerm ==
    /\ pool_on = TRUE
    /\ PoolStart
    /\ RingStart
    /\ ExtOff
    /\ BatchOff
    /\ LazyOff
    /\ burst \in TermFills
    /\ task \in BOOLEAN
    /\ dev_ok \in (IF task THEN {TRUE} ELSE BOOLEAN)
    /\ mt = FALSE

\* the steps of a drain whose outcome the driver does not decide: every step but
\* a pfq_batch_xmit call; full_batch_xmit on an empty batch or under give-up
\* returns without calling the driver
SchedStep(p) ==
    \/ SwapWait(p)
    \/ StoreProd(p)
    \/ TxLoop(p)
    \/ WaitUntil(p)
    \/ \E ok \in BOOLEAN : AllocPush(p, ok)
    \/ CountDisc(p)
    \/ ClearQueue(p)
    \/ /\ Len(batch[p]) = 0 \/ giveup_tx_process(p)
       /\ \/ LoopXmit(p, [i \in 1..Len(batch[p]) |-> AcceptCase])
          \/ FinalXmit(p, [i \in 1..Len(batch[p]) |-> AcceptCase])

\* the ring of InitTerm with a scheduler that keeps running a thread that is
\* inside a drain, and a driver that may refuse every buffer for ever
SpecTerm == InitTerm /\ [][Next]_vars /\ \A p \in Threads : WF_vars(SchedStep(p))

(* ----------------------- pfq_xmit and the TX queue locks --------------- *)

\* pfq_xmit: the queue is picked, the buffer mapped to it and the lock taken
PxCall ==
    /\ bx_pc = "px_call"
    /\ bx_hw_queue' = pfq_pick_tx(bx_real_num, bx_hw_queue, bx_has_select, bx_select)
    /\ bx_txq' = pfq_pick_tx(bx_real_num, bx_hw_queue, bx_has_select, bx_select)
    /\ bx_lock' = TRUE
    /\ bx_n' = 1
    /\ bx_pc' = "px_xmit"
    /\ UNCHANGED <<use_xmit_more, bx_cases, bx_ret, bx_hints, bx_freed, bx_kind, bx_mask,
                   bx_rc, bx_rel, bx_handed, bx_real_num, bx_has_select, bx_select, bx_hw_arg>>
    /\ UNCHANGED <<poolVars, ringVars, lazyVars, restVars, bx_under, px_more, lz_queue, lz_under>>

\* pfq_xmit: ret = __pfq_xmit(skb, dev, txq, more), the lock released, ret returned
PxXmit ==
    /\ bx_pc = "px_xmit"
    /\ LET c == bx_cases[1]
           more == skb_xmit_more(use_xmit_more, px_more)
           r == __pfq_xmit(c)
       IN  /\ bx_hints' = IF HandedToDriver(c) THEN Append(bx_hints, more) ELSE bx_hints
           /\ bx_handed' = IF HandedToDriver(c) THEN bx_handed \cup {1} ELSE bx_handed
           /\ bx_under' = IF HandedToDriver(c)
                          THEN bx_under \cup {<<bx_hw_queue, bx_txq>>} ELSE bx_under
           /\ bx_rc' = r
           /\ bx_freed' = IF r = "-ENETDOWN" THEN bx_freed + 1 ELSE bx_freed
           /\ bx_rel' = IF r = "-ENETDOWN" THEN [bx_rel EXCEPT ![1] = @ + 1] ELSE bx_rel
    /\ bx_lock' = FALSE
    /\ bx_txq' = -1
    /\ bx_pc' = "done"
    /\ UNCHANGED <<use_xmit_more, bx_cases, bx_n, bx_ret, bx_kind, bx_mask,
                   bx_hw_queue, bx_real_num, bx_has_select, bx_select, bx_hw_arg>>
    /\ UNCHANGED <<poolVars, ringVars, lazyVars, restVars, px_more, lz_queue, lz_under>>

\* a pfq_xmit call of one buffer on any device and requested queue
InitXmit ==
    /\ pool_on = TRUE
    /\ PoolStart
    /\ RingStart
    /\ burst = <<>> /\ task = FALSE /\ dev_ok = TRUE /\ mt = FALSE
    /\ LazyOff
    /\ RestOff
    /\ use_xmit_more \in BOOLEAN
    /\ bx_cases \in [1..1 -> XmitCases]
    /\ bx_kind = "xmit" /\ bx_mask = {1}
    /\ bx_hw_queue \in -2..MaxQueue
    /\ bx_real_num \in 1..MaxRealQueues
    /\ bx_has_select \in BOOLEAN
    /\ bx_select \in 0..MaxQueue
    /\ px_more \in BOOLEAN
    /\ bx_pc = "px_call" /\ bx_n = 0 /\ bx_ret = 0 /\ bx_hints = <<>> /\ bx_freed = 0
    /\ bx_lock = FALSE /\ bx_rc = "none" /\ bx_handed = {}
    /\ bx_rel = <<0>>
    /\ bx_hw_arg = bx_hw_queue
    /\ bx_txq = -1 /\ bx_under = {}
    /\ lz_queue = -1 /\ lz_under = {}

\* a commit on a GC pool whose buffers were annotated with any queue mappings
InitLazyQueues ==
    /\ pool_on = TRUE
    /\ PoolStart
    /\ RingStart
    /\ ExtOff
    /\ burst = <<>> /\ task = FALSE /\ dev_ok = TRUE /\ mt = FALSE
    /\ BatchIdle
    /\ use_xmit_more = TRUE
    /\ lz_refs \in PoolLogs
    /\ lz_to_kernel = [b \in GcBufs |-> FALSE]
    /\ lz_qmap \in [GcBufs -> 0..(LazyRealQueues - 1)]
    /\ LazyEntry

\* one call of pfq_xmit, pfq_batch_xmit, pfq_batch_xmit_by_mask or
\* pfq_lazy_xmit_exec
InitLocks ==
    \/ InitXmit
    \/ InitBatch
    \/ InitMask
    \/ InitLazyQueues

NextLocks ==
    \/ PxCall
    \/ PxXmit
    \/ BxCall
    \/ BxXmit
    \/ BxIntr
    \/ LzDev
    \/ LzSkb
    \/ \E clone_ok \in BOOLEAN, c \in XmitCases : LzFwd(clone_ok, c)
    \/ LzUnlock
    \/ \E b \in GcBufs : LzDriverFree(b)

SpecLocks == InitLocks /\ [][NextLocks]_vars

(* ------------------- the bytes a drain reads from the ring ------------- *)

\* ALIGN(x, a)
ALIGN(x, a) == ((x + a - 1) \div a) * a

\* min_t(size_t, a, b)
min_t(a, b) == IF a < b THEN a ELSE b

\* sizeof(struct pfq_pkthdr_tx) + ALIGN(hdr->len, 8): the step of ptr
SlotBytes(len) == HdrBytes + ALIGN(len, 8)

\* len = min_t(size_t, hdr->len, max_len); skb_copy_to_linear_data(skb, hdr+1,
\* len < 64 ? 64 : len): the bytes read behind the header
CopyBytes(len) ==
    LET l == min_t(len, max_len) IN IF l < MinCopy THEN MinCopy ELSE l

\* payload lengths user space gives its packets
LenVals == {8, 64, 128}

\* bytes the descriptors of lens take when written one after the other
RECURSIVE LayoutBytes(_)
LayoutBytes(lens) ==
    IF lens = <<>> THEN 0 ELSE SlotBytes(Head(lens)) + LayoutBytes(Tail(lens))

\* what user space can write into a half: descriptors one after the other from the
\* base, each with its payload inside the half
Layouts ==
    { lens \in UNION { [1..n -> LenVals] : n \in 0..MaxDescs } :
          LayoutBytes(lens) <= HalfBytes }

\* offset of descriptor i of the layout
DescStart(lens, i) == LayoutBytes(SubSeq(lens, 1, i - 1))

\* hdr->len read at offset off: the len of the descriptor that starts there; 0
\* where user space wrote the terminating header behind its last descriptor; any
\* value where the len field lies outside what user space wrote
HdrLenAt(lens, off, junk) ==
    IF \E i \in 1..Len(lens) : DescStart(lens, i) = off
    THEN lens[CHOOSE i \in 1..Len(lens) : DescStart(lens, i) = off]
    ELSE IF off = LayoutBytes(lens) /\ off + HdrBytes <= HalfBytes THEN 0
    ELSE junk

\* traverse_tx_queue on byte offsets: PFQ_DEBUG builds also reject hdr->len > 2048
traverse_tx_queue_at(debug, off, len) ==
    IF debug
    THEN IF off < 0 \/ off >= HalfBytes THEN FALSE
         ELSE IF len > MaxHdrLen THEN FALSE
         ELSE len # 0
    ELSE off < HalfBytes /\ len # 0

\* the header at ptr is dereferenced: always in a PFQ_DEBUG build that found ptr in
\* range, and after ptr < end otherwise
ReadsHeader(off) == off < HalfBytes

Max(a, b) == IF a > b THEN a ELSE b

notReadVars == <<poolVars, ringVars, batchVars, lazyVars, lockVars, serVars, refVars>>

\* the head of the Tx loop: traverse_tx_queue(ptr, begin, end, idx); brk is a
\* full_batch_xmit cut short by give-up, which leaves the loop
RdTraverse(junk, brk) ==
    /\ rd_pc = "loop"
    /\ LET len == HdrLenAt(rd_lens, rd_ptr, junk) IN
       /\ rd_hi' = IF ReadsHeader(rd_ptr) THEN Max(rd_hi, rd_ptr + HdrBytes) ELSE rd_hi
       /\ IF traverse_tx_queue_at(rd_debug, rd_ptr, len)
          THEN /\ rd_len' = len
               /\ rd_pc' = IF brk THEN "count" ELSE "fill"
               /\ rd_stop' = IF brk THEN "break" ELSE rd_stop
          ELSE /\ rd_pc' = "count"
               /\ rd_stop' = IF rd_ptr >= HalfBytes THEN "end" ELSE "zero"
               /\ UNCHANGED rd_len
    /\ UNCHANGED <<rd_debug, rd_lens, rd_ptr>>
    /\ UNCHANGED notReadVars

\* pfq_tx_alloc_skb; fill the skb and copy the payload; ptr moves to the next
\* packet. A failed allocation leaves the loop
RdFill(ok) ==
    /\ rd_pc = "fill"
    /\ IF ok
       THEN /\ rd_hi' = Max(rd_hi, rd_ptr + HdrBytes + CopyBytes(rd_len))
            /\ rd_ptr' = rd_ptr + SlotBytes(rd_len)
            /\ rd_pc' = "loop"
            /\ UNCHANGED rd_stop
       ELSE /\ rd_pc' = "count"
            /\ rd_stop' = "break"
            /\ UNCHANGED <<rd_hi, rd_ptr>>
    /\ UNCHANGED <<rd_debug, rd_lens, rd_len>>
    /\ UNCHANGED notReadVars

\* the second traversal: count the descriptors left in the half
RdCount(junk) ==
    /\ rd_pc = "count"
    /\ LET len == HdrLenAt(rd_lens, rd_ptr, junk) IN
       /\ rd_hi' = IF ReadsHeader(rd_ptr) THEN Max(rd_hi, rd_ptr + HdrBytes) ELSE rd_hi
       /\ IF traverse_tx_queue_at(rd_debug, rd_ptr, len)
          THEN /\ rd_ptr' = rd_ptr + SlotBytes(len)
               /\ rd_len' = len
               /\ UNCHANGED rd_pc
          ELSE /\ rd_pc' = "done"
               /\ UNCHANGED <<rd_ptr, rd_len>>
    /\ UNCHANGED <<rd_debug, rd_lens, rd_stop>>
    /\ UNCHANGED notReadVars

\* a drain of a half that holds any layout user space can write, in either build
InitRead ==
    /\ pool_on = TRUE
    /\ PoolStart
    /\ RingStart
    /\ burst = <<>> /\ task = FALSE /\ dev_ok = TRUE /\ mt = FALSE
    /\ BatchOff
    /\ LazyOff
    /\ LockOff
    /\ SerOff
    /\ RefOff
    /\ rd_debug \in BOOLEAN
    /\ rd_lens \in Layouts
    /\ rd_pc = "loop" /\ rd_ptr = 0 /\ rd_len = 0 /\ rd_hi = 0 /\ rd_stop = "none"

NextRead ==
    \/ \E junk \in LenVals \cup {0}, brk \in BOOLEAN : RdTraverse(junk, brk)
    \/ \E ok \in BOOLEAN : RdFill(ok)
    \/ \E junk \in LenVals \cup {0} : RdCount(junk)

SpecRead == InitRead /\ [][NextRead]_vars

(* --------------------- pfq-lang.hpp: serialize (predicates) ------------ *)

\* FunDescr { type, symbol, arg_ptr, arg_size, left, right }; arg_ptr is left out
FunDescr(type, symbol, size, left, right) ==
    [type |-> type, symbol |-> symbol, arg_size |-> size, left |-> left, right |-> right]

\* term::Pred, term::Pred1 (with the size of its argument) and term::Pred2
Pred(name) == [k |-> "Pred", name |-> name]
Pred1(name, size) == [k |-> "Pred1", name |-> name, size |-> size]
Pred2(comb, left, right) == [k |-> "Pred2", comb |-> comb, left |-> left, right |-> right]

\* the operand serialize(Pred2) serializes second
second_operand(p) == p.left

\* serialize(int n, Combinator), serialize(int n, Pred), serialize(int n, Pred1),
\* serialize(int n, Pred2<P1,P2>): the descriptors and the next index
RECURSIVE serialize(_, _)
serialize(n, p) ==
    IF p.k = "Combinator"
    THEN [descrs |-> <<FunDescr("pfq_combinator_fun", p.name, 0, -1, -1)>>, next |-> n + 1]
    ELSE IF p.k = "Pred"
    THEN [descrs |-> <<FunDescr("pfq_predicate_fun", p.name, 0, -1, -1)>>, next |-> n + 1]
    ELSE IF p.k = "Pred1"
    THEN [descrs |-> <<FunDescr("pfq_predicate_fun", p.name, p.size, -1, -1)>>, next |-> n + 1]
    ELSE LET c == serialize(n, [k |-> "Combinator", name |-> p.comb])
             l == serialize(c.next, p.left)
             r == serialize(l.next, second_operand(p))
             ret0 == [c.descrs[1] EXCEPT !.left = c.next, !.right = l.next]
         IN  [descrs |-> <<ret0>> \o l.descrs \o r.descrs, next |-> r.next]

\* the predicates a call is given: simple predicates, and combinations of them up
\* to MaxPredDepth combinators deep
SimplePreds == {Pred("is_ip"), Pred("is_udp"), Pred1("has_port", 2)}
Combinators == {"and", "or"}

RECURSIVE PredsUpTo(_)
PredsUpTo(d) ==
    IF d = 0 THEN SimplePreds
    ELSE LET sub == PredsUpTo(d - 1) IN
         sub \cup { Pred2(c, l, r) : c \in Combinators, l \in sub, r \in sub }

\* the call: serialize(n, p)
SerCall ==
    /\ ser_pc = "call"
    /\ ser_out' = serialize(ser_n, ser_in)
    /\ ser_pc' = "done"
    /\ UNCHANGED <<ser_in, ser_n>>
    /\ UNCHANGED <<poolVars, ringVars, batchVars, lazyVars, readVars, lockVars, refVars>>

InitSer ==
    /\ pool_on = TRUE
    /\ PoolStart
    /\ RingStart
    /\ burst = <<>> /\ task = FALSE /\ dev_ok = TRUE /\ mt = FALSE
    /\ BatchOff
    /\ LazyOff
    /\ ReadOff
    /\ LockOff
    /\ RefOff
    /\ ser_in \in PredsUpTo(MaxPredDepth)
    /\ ser_n \in 0..MaxIndex
    /\ ser_pc = "call" /\ ser_out = <<>>

NextSer ==
    \/ SerCall

SpecSer == InitSer /\ [][NextSer]_vars

(* ------------- full_batch_xmit: the references of the buffers ---------- *)

\* skb_get: one more reference
skb_get(u) == u + 1

\* kfree_skb, and the end of a transmission in the driver: one reference less
skb_put_ref(u) == u - 1

notRefVars == <<poolVars, ringVars, batchVars, lazyVars, readVars, lockVars, serVars>>

FbBufs == 1..Len(fb_users)

\* head of the while loop of full_batch_xmit: return total on an empty batch,
\* ~total on give-up, else skb_get on the whole batch
FbLoop ==
    /\ fb_pc = "loop"
    /\ IF Len(fb_batch) = 0
       THEN /\ fb_ret' = fb_total
            /\ fb_pc' = "ret"
            /\ UNCHANGED <<fb_users, fb_held, fb_n, fb_sent, fb_rounds>>
       ELSE IF fb_giveup
       THEN /\ fb_ret' = -fb_total - 1
            /\ fb_pc' = "ret"
            /\ UNCHANGED <<fb_users, fb_held, fb_n, fb_sent, fb_rounds>>
       ELSE /\ fb_rounds < MaxRounds
            /\ fb_rounds' = fb_rounds + 1
            /\ fb_users' = [b \in FbBufs |->
                              IF \E i \in 1..Len(fb_batch) : fb_batch[i] = b
                              THEN skb_get(fb_users[b]) ELSE fb_users[b]]
            /\ fb_held' = [b \in FbBufs |->
                              IF \E i \in 1..Len(fb_batch) : fb_batch[i] = b
                              THEN skb_get(fb_held[b]) ELSE fb_held[b]]
            /\ fb_n' = 1 /\ fb_sent' = 0
            /\ fb_pc' = "xmit"
            /\ UNCHANGED fb_ret
    /\ UNCHANGED <<fb_batch, fb_total, fb_giveup, fb_drv, fb_pool, fb_gave, fb_hist>>
    /\ UNCHANGED notRefVars

\* one iteration of for_each_skbuff in pfq_batch_xmit: __pfq_xmit on the buffer.
\* A submission the driver completes passes it a reference; otherwise __pfq_xmit
\* frees the buffer once; anything but NETDEV_TX_OK leaves the loop for intr
FbXmit(c) ==
    /\ fb_pc = "xmit"
    /\ LET b == fb_batch[fb_n]
           r == __pfq_xmit(c)
           taken == HandedToDriver(c) /\ dev_xmit_complete(c.drv)
       IN  /\ fb_hist' = IF HandedToDriver(c)
                         THEN [fb_hist EXCEPT ![b] = Append(@, c.drv)] ELSE fb_hist
           /\ fb_held' = [fb_held EXCEPT ![b] = skb_put_ref(@)]
           /\ fb_drv' = IF taken THEN [fb_drv EXCEPT ![b] = @ + 1] ELSE fb_drv
           /\ fb_users' = IF taken THEN fb_users
                          ELSE [fb_users EXCEPT ![b] = skb_put_ref(@)]
           /\ IF r = "NETDEV_TX_OK"
              THEN /\ fb_sent' = fb_sent + 1
                   /\ IF fb_n < Len(fb_batch)
                      THEN fb_n' = fb_n + 1 /\ fb_pc' = "xmit"
                      ELSE fb_n' = fb_n /\ fb_pc' = "after"
              ELSE /\ fb_pc' = "intr"
                   /\ UNCHANGED <<fb_sent, fb_n>>
    /\ UNCHANGED <<fb_batch, fb_total, fb_ret, fb_giveup, fb_rounds, fb_pool, fb_gave>>
    /\ UNCHANGED notRefVars

\* intr: of pfq_batch_xmit: kfree_skb on every buffer from index ret + 1 on
FbIntr ==
    /\ fb_pc = "intr"
    /\ LET late == { fb_batch[i] : i \in intr_first(fb_sent)..Len(fb_batch) }
       IN  /\ fb_users' = [b \in FbBufs |->
                             IF b \in late THEN skb_put_ref(fb_users[b]) ELSE fb_users[b]]
           /\ fb_held' = [b \in FbBufs |->
                             IF b \in late THEN skb_put_ref(fb_held[b]) ELSE fb_held[b]]
    /\ fb_pc' = "after"
    /\ UNCHANGED <<fb_batch, fb_n, fb_sent, fb_total, fb_ret, fb_giveup, fb_rounds,
                   fb_drv, fb_pool, fb_gave, fb_hist>>
    /\ UNCHANGED notRefVars

\* pfq_kfree_skb_pool on the buffers of set bs: each one goes to the pool with
\* the engine's reference when keep says so, and is freed otherwise
FbRecycle(bs, keep) ==
    /\ fb_gave' = [b \in FbBufs |-> IF b \in bs THEN fb_gave[b] + 1 ELSE fb_gave[b]]
    /\ fb_held' = [b \in FbBufs |->
                     IF b \in bs THEN skb_put_ref(fb_held[b]) ELSE fb_held[b]]
    /\ fb_pool' = [b \in FbBufs |->
                     IF b \in bs /\ b \in keep THEN fb_pool[b] + 1 ELSE fb_pool[b]]
    /\ fb_users' = [b \in FbBufs |->
                     IF b \in bs /\ b \notin keep
                     THEN skb_put_ref(fb_users[b]) ELSE fb_users[b]]

\* full_batch_xmit after pfq_batch_xmit returned: relax when nothing was sent,
\* else count the sent buffers, recycle them and drop them from the batch
FbAfter(keep) ==
    /\ fb_pc = "after"
    /\ IF fb_sent = 0
       THEN /\ keep = {}
            /\ UNCHANGED <<fb_total, fb_batch, fb_gave, fb_held, fb_pool, fb_users>>
       ELSE /\ fb_total' = fb_total + fb_sent
            /\ FbRecycle({ fb_batch[i] : i \in 1..fb_sent }, keep)
            /\ fb_batch' = SubSeq(fb_batch, fb_sent + 1, Len(fb_batch))
    /\ fb_pc' = "loop"
    /\ UNCHANGED <<fb_n, fb_sent, fb_ret, fb_giveup, fb_rounds, fb_drv, fb_hist>>
    /\ UNCHANGED notRefVars

\* __pfq_queue_xmit after the last full_batch_xmit: every buffer still in the
\* batch is recycled
FbDiscard(keep) ==
    /\ fb_pc = "ret"
    /\ FbRecycle({ fb_batch[i] : i \in 1..Len(fb_batch) }, keep)
    /\ fb_pc' = "done"
    /\ UNCHANGED <<fb_batch, fb_n, fb_sent, fb_total, fb_ret, fb_giveup, fb_rounds,
                   fb_drv, fb_hist>>
    /\ UNCHANGED notRefVars

\* the driver finishes with a buffer it was given and releases its reference
FbDriverFree(b) ==
    /\ fb_pc \notin {"off"}
    /\ b \in FbBufs
    /\ fb_drv[b] > 0
    /\ fb_drv' = [fb_drv EXCEPT ![b] = @ - 1]
    /\ fb_users' = [fb_users EXCEPT ![b] = skb_put_ref(@)]
    /\ UNCHANGED <<fb_pc, fb_batch, fb_n, fb_sent, fb_total, fb_ret, fb_giveup,
                   fb_rounds, fb_held, fb_pool, fb_gave, fb_hist>>
    /\ UNCHANGED notRefVars

\* giveup_tx_process() becomes true
FbGiveup ==
    /\ fb_pc \notin {"off", "done"}
    /\ ~fb_giveup
    /\ fb_giveup' = TRUE
    /\ UNCHANGED <<fb_pc, fb_batch, fb_n, fb_sent, fb_total, fb_ret, fb_rounds,
                   fb_users, fb_held, fb_drv, fb_pool, fb_gave, fb_hist>>
    /\ UNCHANGED notRefVars

\* a batch of freshly allocated buffers enters full_batch_xmit
InitRefs ==
    /\ pool_on = TRUE
    /\ PoolStart
    /\ RingStart
    /\ burst = <<>> /\ task = FALSE /\ dev_ok = TRUE /\ mt = FALSE
    /\ ReadOff
    /\ LockOff
    /\ SerOff
    /\ BatchOff
    /\ LazyOff
    /\ \E n \in 1..MaxBatch :
          /\ fb_batch = [i \in 1..n |-> i]
          /\ fb_users = [i \in 1..n |-> 1]
          /\ fb_held = [i \in 1..n |-> 1]
          /\ fb_drv = [i \in 1..n |-> 0]
          /\ fb_pool = [i \in 1..n |-> 0]
          /\ fb_gave = [i \in 1..n |-> 0]
          /\ fb_hist = [i \in 1..n |-> <<>>]
    /\ fb_pc = "loop" /\ fb_n = 0 /\ fb_sent = 0 /\ fb_total = 0 /\ fb_ret = 0
    /\ fb_giveup = FALSE /\ fb_rounds = 0

NextRefs ==
    \/ FbLoop
    \/ \E c \in XmitCases : FbXmit(c)
    \/ FbIntr
    \/ \E keep \in SUBSET (1..MaxBatch) : FbAfter(keep)
    \/ \E keep \in SUBSET (1..MaxBatch) : FbDiscard(keep)
    \/ \E b \in 1..MaxBatch : FbDriverFree(b)
    \/ FbGiveup

SpecRefs == InitRefs /\ [][NextRefs]_vars

(* ------------------------------ properties ----------------------------- *)

\* descriptors with len > 0 from the base of a half up to the first len == 0
\* descriptor or the end of the half
LiveCount(h) == Cardinality({i \in 1..HalfSlots : \A j \in 1..i : h[j].len > 0})

Quiescent == \A p \in Threads : pc[p] = "idle"

\* C1: drain accounting. The step of a drain that updates the statistics adds to
\* sent and to disc, together, exactly the number of descriptors with len > 0 that
\* the traversal of the drained half reaches, whatever the driver results, the
\* allocation failures and the give-up events of the drain were.
C1_DrainAccounting ==
    [][\A p \in Threads :
          (pc[p] = "count" /\ pc'[p] = "clear") =>
              /\ (sent' - sent) + (disc' - disc) = LiveCount(ring[Half(p)])
              /\ sent' - sent = tot_sent[p]
              /\ sent' >= sent /\ disc' >= disc]_vars

C1_Witness ==
    \E p \in Threads :
        /\ pc[p] = "clear"
        /\ tot_sent[p] >= 1 /\ ldisc[p] >= 1
        /\ first_rej[p] >= 0
        /\ sent = tot_sent[p] /\ disc = ldisc[p]

\* C2: pool safety with one producer and one consumer. Every buffer handed to
\* pfq_skb_pool_push is in exactly one place: returned by one pop, resident in one
\* slot, freed by the slow path, or still in the hands of the running push or pop;
\* the buffers pushed and not yet popped never outnumber the slots; BUG_ON never
\* fires and pop never reads an empty slot.
ResidentSlots == {i \in Slots : skbs[i] # NULL}
InPush == IF ppc \in {"load_c", "store_slot"} THEN {pskb} ELSE {}
InPop == IF cpc = "store_c" THEN {cskb} ELSE {}
PoppedSet == {popped[i] : i \in 1..Len(popped)}

C2_PoolSafety ==
    /\ PoppedSet \cup slow_freed \cup {skbs[i] : i \in ResidentSlots} \cup InPush \cup InPop
          = 1..npushed
    /\ Len(popped) + Cardinality(slow_freed) + Cardinality(ResidentSlots)
          + Cardinality(InPush) + Cardinality(InPop) = npushed
    /\ npushed - Cardinality(slow_freed) - Cardinality(InPush)
          - Len(popped) - Cardinality(InPop) <= PoolSize
    /\ ~bug_on
    /\ cpc # "oops"

C2_Witness ==
    /\ pool_on
    /\ Len(popped) >= 2
    /\ slow_freed # {}
    /\ ResidentSlots # {}
    /\ npushed = MaxPush

\* C3: swap monotonicity. Every start of a drain increases cons, cons never
\* decreases, and whenever no drain is in progress prod - cons is 0 or 1.
C3_SwapMonotonicity ==
    /\ [](Quiescent => (prod - cons) \in {0, 1})
    /\ [][/\ cons' >= cons
          /\ \A p \in Threads :
                (pc[p] = "idle" /\ pc'[p] \in {"swap_wait", "store_prod"}) => cons' > cons]_vars

\* C4: interrupted swap. A drain that enters its body after a drain of the ring
\* returned -EINTR from the swap wait drains the half that drain was about to drain.
C4_ResumesSameHalf ==
    \A p \in Threads : (InBody(p) /\ eintr_half # -1) => Half(p) = eintr_half

\* C5: half exclusivity. No thread is inside the drain body of the half that user
\* space is allowed to write, the half selected by prod & 1.
C5_HalfExclusive ==
    \A p \in Threads : InBody(p) => ~(UserMayWrite /\ prod % 2 = Half(p))

\* C6: single drainer. Two threads are never inside the drain body of the same half.
C6_SingleDrainer ==
    \A p, q \in Threads : (p # q /\ InBody(p) /\ InBody(q)) => Half(p) # Half(q)

\* C7 as stated: a drain in which the driver refused a buffer ends with sent equal
\* to the number of buffers accepted before the refusal and every other descriptor
\* of the half discarded, abrt unchanged.
C7_StopsWithoutRetry ==
    \A p \in Threads :
        (pc[p] = "clear" /\ first_rej[p] >= 0) =>
            /\ tot_sent[p] = first_rej[p]
            /\ ldisc[p] = LiveCount(ring[Half(p)]) - first_rej[p]
            /\ abrt = 0

\* C7: a refusal by the driver does not end the drain: the refused buffer stays in
\* the batch and is offered again. A drain in which the driver refused a buffer
\* discards descriptors only if give-up cut it short or an allocation failed;
\* otherwise every descriptor of the half is sent. abrt is unchanged.
C7_RetriesUntilGiveup ==
    \A p \in Threads :
        (pc[p] = "clear" /\ first_rej[p] >= 0) =>
            /\ abrt = 0
            /\ tot_sent[p] >= first_rej[p]
            /\ (~cancelled[p] /\ ~alloc_failed[p]) =>
                   (ldisc[p] = 0 /\ tot_sent[p] = LiveCount(ring[Half(p)]))

C7_Witness ==
    \E p \in Threads :
        /\ pc[p] = "clear"
        /\ LiveCount(ring[Half(p)]) = 3
        /\ first_rej[p] = 1
        /\ tot_sent[p] = 3 /\ ldisc[p] = 0
        /\ ~cancelled[p] /\ ~alloc_failed[p]

\* C8: cancellation. Give-up stays true for the rest of a drain. No wait loop goes
\* round again in an iteration that saw give-up, no batch is submitted to the driver
\* in an iteration that saw give-up, a drain cut short by give-up counts every
\* descriptor it did not send in disc, and a drain that sees give-up returns.
C8_CancellationFidelity ==
    /\ [](\A p \in Threads :
            /\ ~respun[p]
            /\ ~sub_after_giveup[p]
            /\ (pc[p] = "clear" /\ cancelled[p]) =>
                   tot_sent[p] + ldisc[p] = LiveCount(ring[Half(p)]))
    /\ [][\A p \in Threads : (giveup[p] /\ pc[p] # "idle") => giveup'[p]]_vars
    /\ \A p \in Threads : (giveup[p] /\ pc[p] # "idle") ~> (pc[p] \in {"done", "intr"})

C8_Witness ==
    \E p \in Threads :
        /\ pc[p] = "done"
        /\ giveup[p] /\ cancelled[p]
        /\ first_rej[p] >= 0
        /\ ldisc[p] >= 1

\* C9 as stated: a drain cut short by give-up after the swap phase returns a value
\* that no drain that was not cut short returns, a negative one.
C9_DistinguishedReturn ==
    \A p \in Threads : (pc[p] = "done" /\ cancelled[p]) => ret[p] < 0

\* C9: a drain that passed the swap phase returns tot_sent, the number of packets
\* it sent, whether give-up cut it short or not; only a drain cancelled inside the
\* swap wait returns -EINTR.
C9_ReturnsSentCount ==
    \A p \in Threads :
        /\ pc[p] = "done" => (ret[p] = tot_sent[p] /\ ret[p] >= 0)
        /\ pc[p] = "intr" => ret[p] = -EINTR

C9_Witness ==
    \E p \in Threads :
        /\ pc[p] = "done"
        /\ cancelled[p]
        /\ ret[p] = 1 /\ ldisc[p] = 2
        /\ sent = 1

\* C10: ring termination. When a drain that passed the swap phase has returned, the
\* first descriptor of the half it drained has len == 0, also when give-up or an
\* allocation failure cut the drain short.
C10_RingTermination ==
    \A p \in Threads : pc[p] = "done" => ring[Half(p)][1].len = 0

C10_Witness ==
    \E p \in Threads :
        /\ pc[p] = "done"
        /\ alloc_failed[p]
        /\ ldisc[p] >= 1
        /\ ring[Half(p)][2].len > 0

\* the end of a pool run: the producer has pushed its MaxPush buffers, no push or
\* pop is under way and the pool is empty
PoolRunEnded ==
    /\ pool_on
    /\ npushed = MaxPush
    /\ ppc = "idle" /\ cpc = "idle"
    /\ p_idx = c_idx

\* C14 as stated: at the end of a run of 8 pushes on a pool of size 4 with a
\* concurrent consumer, pushed == popped + slow_freed and slow_freed == 4.
C14_SlowFreedFour ==
    PoolRunEnded =>
        /\ npushed = Len(popped) + Cardinality(slow_freed)
        /\ Cardinality(slow_freed) = 4

\* C14: at the end of the run pushed == popped + slow_freed and os_free counts the
\* slow frees; the array of size slots holds at most size - 1 buffers, so at most
\* pushed - (size - 1) pushes take the slow path, and exactly that many do when
\* the consumer pops nothing before the last push.
C14_SlowFreedBound ==
    /\ os_free = Cardinality(slow_freed)
    /\ pool_on => Cardinality(slow_freed) <= IF npushed >= PoolSize - 1
                                             THEN npushed - (PoolSize - 1) ELSE 0
    /\ (pool_on /\ popped = <<>> /\ cpc = "idle" /\ ppc = "idle"
          /\ npushed >= PoolSize - 1)
          => Cardinality(slow_freed) = npushed - (PoolSize - 1)
    /\ PoolRunEnded => npushed = Len(popped) + Cardinality(slow_freed)

C14_Witness ==
    /\ PoolRunEnded
    /\ Len(popped) = PoolSize - 1
    /\ Cardinality(slow_freed) = MaxPush - (PoolSize - 1)

\* C12: pacing. In a drain no buffer is handed to __pfq_xmit while the clock is
\* strictly before the nsec timestamp of its descriptor, whatever the timestamps in
\* the half and wherever give-up becomes true.
C12_Pacing ==
    \A p \in Threads : ~early[p]

C12_Witness ==
    \E p \in Threads :
        /\ InBody(p)
        /\ Len(accepted[p]) >= 2
        /\ ring[Half(p)][accepted[p][1]].nsec = 0
        /\ ring[Half(p)][accepted[p][2]].nsec = MaxTs
        /\ MaxTs > 0

\* C13: ring order. The descriptors whose buffers the driver accepted in a drain
\* are, in the order of acceptance, the first, the second, ... descriptor of the
\* half, across partial batches and retries; and a drain in which the driver
\* refused nothing, no allocation failed and give-up was not seen ends with every
\* descriptor of the half sent and none discarded.
C13_RingOrder ==
    \A p \in Threads :
        /\ accepted[p] = [i \in 1..Len(accepted[p]) |-> i]
        /\ pc[p] \in {"count", "clear", "done"} => Len(accepted[p]) = tot_sent[p]
        /\ (pc[p] = "clear" /\ first_rej[p] = -1 /\ ~cancelled[p] /\ ~alloc_failed[p]) =>
               (tot_sent[p] = LiveCount(ring[Half(p)]) /\ ldisc[p] = 0)

C13_Witness ==
    \E p \in Threads :
        /\ pc[p] = "clear"
        /\ accepted[p] = <<1, 2, 3>>
        /\ first_rej[p] = 1
        /\ ldisc[p] = 0

\* C20: return contract of full_batch_xmit. When a call that began with the batch
\* batch0 returns r >= 0, the batch is empty and r is the length of batch0; when it
\* returns r < 0, give-up was seen, ~r buffers of batch0 were accepted by the
\* driver, and the batch holds the other buffers of batch0 in their order; in both
\* cases the decoded count is the number of buffers removed from the batch.
C20_ReturnContract ==
    [][\A p \in Threads :
          (pc[p] \in {"loop_xmit", "flush"} /\ pc'[p] # pc[p]) =>
              LET r == fbx_ret'[p]
                  L == Len(batch0'[p])
                  k == IF r >= 0 THEN r ELSE -r - 1
                  a == accepted'[p]
              IN /\ r >= 0 => (batch'[p] = <<>> /\ r = L)
                 /\ r < 0 => (giveup[p] /\ batch'[p] # <<>>)
                 /\ k <= L
                 /\ batch'[p] = SubSeq(batch0'[p], k + 1, L)
                 /\ k = L - Len(batch'[p])
                 /\ Len(a) >= k
                 /\ SubSeq(a, Len(a) - k + 1, Len(a)) = SubSeq(batch0'[p], 1, k)]_vars

C20_Witness ==
    \E p \in Threads :
        /\ pc[p] = "flush"
        /\ fbx_ret[p] = -2
        /\ Len(batch0[p]) = 2
        /\ Len(batch[p]) = 1
        /\ first_rej[p] >= 0

\* C15: flush gating. pfq_queue_flush returns 0 and starts no drain when a worker
\* is bound to the ring, returns -EPERM and starts no drain when the device does
\* not resolve, and in both cases leaves prod, cons, the ring and the sent and disc
\* counters as they are; otherwise it runs the drain and returns 0.
C15_FlushGating ==
    /\ [](task => \A p \in Threads : p # 1 => (pc[p] = "idle" /\ fret[p] = 0))
    /\ []((~task /\ ~dev_ok) =>
             /\ \A p \in Threads : pc[p] = "idle" /\ fret[p] \in {0, -EPERM}
             /\ cons = 0 /\ sent = 0 /\ disc = 0)
    /\ []((~task /\ dev_ok) => \A p \in Threads : fret[p] = 0)
    /\ [][\A p \in Threads :
            /\ (pfq_queue_flush(p) /\ (task \/ ~dev_ok)) =>
                  /\ UNCHANGED <<prod, cons, ring, sent, disc, pc>>
                  /\ fret'[p] = IF task THEN 0 ELSE -EPERM
            /\ (pfq_queue_flush(p) /\ ~task /\ dev_ok) =>
                  (cons' = cons + 1 /\ pc'[p] = "store_prod")
            /\ (~task /\ pc[p] \in {"done", "intr"} /\ pc'[p] = "idle") => fret'[p] = 0]_vars

C15_Witness ==
    \E p \in Threads :
        /\ ~task /\ ~dev_ok
        /\ fret[p] = -EPERM
        /\ ustate = "filled"
        /\ cons = 0

\* C11 (as stated): in every pfq_batch_xmit call, of the buffers given to the
\* driver exactly the last one given carries xmit_more = false
C11_LastOnlyFalse ==
    (bx_pc \in {"intr", "done"} /\ bx_hints # <<>>) =>
        \A i \in 1..Len(bx_hints) : bx_hints[i] = (i # Len(bx_hints))

\* C11: the buffers given to the driver are the first buffers of the batch in
\* order, at most one more than were accepted. In a build with PFQ_USE_XMIT_MORE
\* buffer n carries xmit_more = true unless it is the last buffer of the batch,
\* so a call that stops before the last buffer gives every buffer with true; in a
\* build without it every buffer carries false
C11_XmitMoreHint ==
    bx_pc # "off" =>
        /\ Len(bx_hints) <= Len(bx_cases)
        /\ Len(bx_hints) <= bx_ret + 1
        /\ \A i \in 1..Len(bx_hints) :
              bx_hints[i] = (use_xmit_more /\ i # Len(bx_cases))
        /\ (bx_pc = "done" /\ bx_ret = Len(bx_cases)) => Len(bx_hints) = Len(bx_cases)

C11_Witness ==
    /\ bx_pc = "done" /\ use_xmit_more
    /\ Len(bx_cases) = 3 /\ bx_ret = 1 /\ Len(bx_hints) = 2
    /\ bx_hints[2] = TRUE

\* the targets of the commit, and whether they cover every device of every log
LzTargets == { lz_ts[k] : k \in 1..Len(lz_ts) }

LzCovered ==
    \A b \in GcBufs : \A k \in 1..Len(lz_refs[b]) : lz_refs[b][k] \in LzTargets

\* scenario S5: A to eth0 x1 and eth1 x2, B to eth0 x1, C to eth1 x1
ScenarioS5 == lz_refs = <<(<<1, 2, 2>>), (<<1>>), (<<2>>)>> /\ lz_ts = <<1, 2>>

\* C16 (as stated): after the commit every target has had exactly cnt[d] buffers
\* handed to its driver, and no buffer's reference count has changed
C16_ExactFanOut ==
    lz_pc = "done" =>
        /\ \A d \in LzTargets : lz_handed[d] = TargetCnt(d, lz_refs, MaxGc)
        /\ \A b \in GcBufs : lz_users[b] = 1 + lz_held[b]

\* C16: after the commit every target d has had exactly cnt[d] submissions
\* attempted; the buffers handed to its driver are at most cnt[d], and exactly
\* cnt[d] when nothing was aborted. A buffer's reference count is its pre-commit
\* value plus the references a driver still holds: at most one, taken by skb_get
\* for the last delivery of a buffer that does not go to the kernel
C16_FanOut ==
    /\ \A d \in Devs : lz_handed[d] <= lz_att[d]
    /\ \A b \in GcBufs :
          /\ lz_users[b] = 1 + lz_held[b]
          /\ lz_held[b] <= 1
          /\ lz_held[b] = 1 => (~lz_to_kernel[b] /\ lz_xmit_todo[b] = 0)
    /\ lz_pc = "done" =>
          /\ \A d \in LzTargets : lz_att[d] = TargetCnt(d, lz_refs, MaxGc)
          /\ \A d \in Devs \ LzTargets : lz_att[d] = 0
          /\ lz_abrt = 0 => \A d \in Devs : lz_handed[d] = lz_att[d]

C16_Witness ==
    /\ lz_pc = "done" /\ ScenarioS5
    /\ lz_handed[1] = 2 /\ lz_handed[2] = 2 /\ lz_att[2] = 3
    /\ lz_users[3] = 2

\* C17 (as stated): after a commit whose targets cover every device of every
\* log, xmit_todo is 0 for every buffer, whatever its to_kernel flag
C17_TodoZero ==
    (lz_pc = "done" /\ LzCovered) => \A b \in GcBufs : lz_xmit_todo[b] = 0

\* C18: for each device the submissions follow the order of the buffers in the
\* pool, each buffer submitted as many times in a row as its log names the
\* device, and all of them under one hold of the device's TX queue lock
C18_Ordering ==
    /\ [](/\ \A d \in Devs : lz_locks[d] <= 1
          /\ lz_txq # NULL => (lz_pc \in {"skb", "fwd", "unlock"} /\ lz_txq = lz_ts[lz_n])
          /\ lz_pc = "fwd" =>
                /\ lz_txq = lz_ts[lz_n]
                /\ lz_num = gc_count_dev_in_log(lz_ts[lz_n], lz_refs[lz_i])
                /\ lz_j < lz_num
          /\ lz_pc = "done" =>
                \A d \in LzTargets : lz_att[d] = TargetCnt(d, lz_refs, MaxGc))
    /\ [][\A d \in Devs :
            lz_att'[d] # lz_att[d] =>
                /\ lz_att'[d] = lz_att[d] + 1
                /\ lz_txq = d /\ lz_txq' = d
                /\ lz_locks[d] = 1 /\ lz_locks'[d] = 1
                /\ lz_last[d] <= lz_i
                /\ lz_last'[d] \in {lz_last[d], lz_i}
                /\ lz_j' = lz_j + 1
                /\ (lz_i' # lz_i) = (lz_j' = lz_num)]_vars

C18_Witness ==
    /\ lz_pc = "done" /\ ScenarioS5
    /\ lz_handed = <<2, 3>> /\ lz_locks = <<1, 1>> /\ lz_last = <<2, 3>>

\* C19: every submission adds one to the returned count or one to abrt, never
\* both; a failure stops nothing: after the commit every target has had all its
\* submissions attempted, and the value returned plus the increase of abrt is
\* the sum over the targets of the buffers' references
C19_FailureIsolation ==
    /\ [](/\ lz_sent + lz_abrt = lz_att[1] + lz_att[2]
          /\ lz_pc = "done" =>
                /\ \A d \in LzTargets : lz_att[d] = TargetCnt(d, lz_refs, MaxGc)
                /\ \A d \in Devs \ LzTargets : lz_att[d] = 0)
    /\ [][/\ lz_abrt' \in {lz_abrt, lz_abrt + 1}
          /\ lz_sent' \in {lz_sent, lz_sent + 1}
          /\ (\E clone_ok \in BOOLEAN, c \in XmitCases : LzFwd(clone_ok, c)) =>
                /\ (lz_abrt' = lz_abrt + 1) # (lz_sent' = lz_sent + 1)
                /\ lz_att'[lz_ts[lz_n]] = lz_att[lz_ts[lz_n]] + 1]_vars

C19_Witness ==
    /\ lz_pc = "done" /\ lz_ts = <<1, 2>>
    /\ lz_att[1] = 2 /\ lz_handed[1] = 0
    /\ lz_att[2] = 3 /\ lz_sent = 2 /\ lz_abrt = 3

\* the driver took the buffer at position i of the batch and did not give it back
DriverConsumed(i) == i \in bx_handed /\ dev_xmit_complete(bx_cases[i].drv)

\* C21: pfq_batch_xmit returns the length r of the accepted prefix; the buffer
\* after the prefix is the one not accepted, nothing after it reaches the driver,
\* every later buffer is freed once, the failing buffer is freed once unless the
\* driver consumed it, accepted buffers are not freed, and the lock is released
C21_PartialSuccess ==
    /\ \A i \in 1..Len(bx_rel) : bx_rel[i] + (IF DriverConsumed(i) THEN 1 ELSE 0) <= 1
    /\ bx_lock = (bx_pc \in {"loop", "intr"})
    /\ bx_pc = "done" =>
          LET len == Len(bx_cases) IN
          /\ bx_ret = BatchXmitFrom(bx_cases, bx_cases, 1)
          /\ \A i \in 1..bx_ret :
                __pfq_xmit(bx_cases[i]) = "NETDEV_TX_OK" /\ i \in bx_handed /\ bx_rel[i] = 0
          /\ bx_ret < len =>
                /\ __pfq_xmit(bx_cases[bx_ret + 1]) # "NETDEV_TX_OK"
                /\ bx_rel[bx_ret + 1] = (IF DriverConsumed(bx_ret + 1) THEN 0 ELSE 1)
          /\ \A i \in (bx_ret + 2)..len : i \notin bx_handed /\ bx_rel[i] = 1
          /\ bx_freed = Cardinality({i \in 1..len : bx_rel[i] = 1})

C21_Witness ==
    /\ bx_pc = "done" /\ bx_kind = "batch" /\ Len(bx_cases) = 3
    /\ bx_ret = 1 /\ bx_rel = <<0, 1, 1>> /\ bx_handed = {1, 2} /\ ~bx_lock

\* C22 (as stated): pfq_batch_xmit_by_mask gives to the driver, and frees on
\* failure, only buffers whose bit is set in mask, frees none twice, submits each
\* with xmit_more = 0, and returns the number of masked buffers accepted
C22_OnlyMasked ==
    bx_kind = "mask" =>
        /\ bx_handed \subseteq bx_mask
        /\ \A i \in 1..Len(bx_rel) :
              /\ i \notin bx_mask => bx_rel[i] = 0
              /\ bx_rel[i] + (IF DriverConsumed(i) THEN 1 ELSE 0) <= 1
        /\ \A k \in 1..Len(bx_hints) : bx_hints[k] = FALSE
        /\ bx_pc = "done" =>
              bx_ret = Cardinality({i \in bx_mask : i < bx_n})

\* C23: __pfq_xmit calls the driver only when the device is up and the queue not
\* stopped; when it does not call it, or the driver's result is not
\* submission-complete, the buffer is freed once, os_free grows by one and
\* -ENETDOWN is returned; otherwise nothing is freed and the driver's result is
\* returned
C23_XmitOutcome ==
    [][BxXmit =>
          LET c == bx_cases[bx_n]
              called == c.up /\ ~c.stopped
          IN  /\ (bx_n \in bx_handed') = called
              /\ IF ~called \/ c.drv \notin {"NETDEV_TX_OK", "NET_XMIT_DROP"}
                 THEN /\ bx_rel'[bx_n] = bx_rel[bx_n] + 1
                      /\ bx_freed' = bx_freed + 1
                      /\ bx_rc' = "-ENETDOWN"
                 ELSE /\ bx_rel'[bx_n] = bx_rel[bx_n]
                      /\ bx_freed' = bx_freed
                      /\ bx_rc' = c.drv]_vars

C23_Witness ==
    /\ bx_pc = "intr" /\ bx_n = 2 /\ bx_rc = "-ENETDOWN"
    /\ 2 \in bx_handed /\ bx_rel[2] = 1 /\ bx_freed = 1
    /\ bx_cases[2].drv = "NETDEV_TX_BUSY"

\* the queue asked for: the caller's hw_queue, or for -1 on a multi-queue device
\* the answer of the driver's selector (0 without one)
AskedQueue ==
    IF bx_real_num # 1 /\ bx_hw_arg = -1
    THEN (IF bx_has_select THEN bx_select ELSE 0)
    ELSE bx_hw_arg

\* C24 (as stated): a queue asked for that is at or above real_num_tx_queues
\* resolves to real_num_tx_queues - 1, any other is used unchanged, and the index
\* written back is in [0, real_num_tx_queues)
C24_ClampToLast ==
    bx_pc \notin {"off", "call"} =>
        /\ bx_hw_queue = (IF AskedQueue >= bx_real_num THEN bx_real_num - 1 ELSE AskedQueue)
        /\ bx_hw_queue \in 0..(bx_real_num - 1)

\* C24: a queue asked for that is at or above real_num_tx_queues, or negative,
\* resolves to queue 0; any other is used unchanged; the index written back is
\* in [0, real_num_tx_queues)
C24_CapToZero ==
    bx_pc \notin {"off", "call"} =>
        /\ bx_hw_queue = (IF AskedQueue >= bx_real_num \/ AskedQueue < 0 THEN 0 ELSE AskedQueue)
        /\ bx_hw_queue \in 0..(bx_real_num - 1)

C24_Witness ==
    /\ bx_pc = "loop" /\ bx_real_num = 3 /\ bx_hw_arg = 3 /\ bx_hw_queue = 0

\* C26 (as stated): after the commit, for each device whose driver was given a
\* buffer, the last buffer given carries xmit_more = false and every earlier one
\* carries true
C26_LastCarriesFalse ==
    lz_pc = "done" =>
        \A d \in Devs : lz_handed[d] > 0 => (lz_more[d] = "last" /\ ~lz_early_false[d])

\* C26: a buffer given to a device's driver carries xmit_more = false exactly when
\* the build has no PFQ_USE_XMIT_MORE or it is the cnt[d]-th submission attempted
\* for the device; so with PFQ_USE_XMIT_MORE only the buffer of the final attempt
\* can carry false, and when that attempt gives nothing to the driver every
\* buffer given carries true
C26_HintByAttempt ==
    /\ [](\A d \in Devs :
            /\ use_xmit_more =>
                  /\ ~lz_early_false[d]
                  /\ lz_more[d] = "last" => lz_att[d] = TargetCnt(d, lz_refs, MaxGc)
            /\ ~use_xmit_more => lz_more[d] # "more")
    /\ [][\A d \in Devs :
            lz_handed'[d] # lz_handed[d] =>
                lz_more'[d] = IF use_xmit_more /\ lz_att'[d] # TargetCnt(d, lz_refs, MaxGc)
                              THEN "more" ELSE "last"]_vars

C26_Witness ==
    /\ lz_pc = "done" /\ use_xmit_more /\ ScenarioS5
    /\ lz_att[2] = 3 /\ lz_handed[2] = 2 /\ lz_more[2] = "more"

\* C25: pfq_lazy_xmit on a log with room appends dev, adds one to xmit_todo, sets
\* the queue mapping and returns 1; on a full log it returns 0 and changes
\* nothing; so no log ever holds more than Q_GC_LOG_QUEUE_LEN devices
C25_BoundedLog ==
    /\ [](\A b \in GcBufs :
            /\ Len(lz_refs[b]) <= Q_GC_LOG_QUEUE_LEN
            /\ lz_xmit_todo[b] = Len(lz_refs[b]))
    /\ [][\A b \in GcBufs, d \in Devs, hw \in 0..1 :
            LazyXmit(b, d, hw) =>
                IF Len(lz_refs[b]) < Q_GC_LOG_QUEUE_LEN
                THEN /\ lz_refs'[b] = Append(lz_refs[b], d)
                     /\ lz_xmit_todo'[b] = lz_xmit_todo[b] + 1
                     /\ lz_qmap'[b] = hw
                     /\ lz_ret' = 1
                ELSE /\ lz_ret' = 0
                     /\ UNCHANGED <<lz_refs, lz_xmit_todo, lz_qmap>>]_vars

C25_Witness ==
    /\ lz_call = "lazy_xmit" /\ lz_ret = 0
    /\ lz_refs[1] = <<1, 2, 1>> /\ lz_xmit_todo[1] = 3 /\ lz_qmap[1] = 1

\* a step in which pfq_skb_pool_pop returns without a buffer
PopReturnsNone ==
    \/ PopLoadC /\ ~pool_on
    \/ PopLoadP /\ cpc' = "idle"
    \/ PopReadSlot /\ cpc' = "idle"

\* C27: pop returns a buffer only when the indices it loaded differ and the
\* buffer at the consumer index has a reference count below 2; the slot has then
\* been set to NULL and c_idx advances by one modulo size. A pop that finds the
\* pool disabled, empty, or its head buffer referenced twice returns NULL and
\* changes neither index nor any slot; c_idx changes in no other step
C27_PopGate ==
    /\ [](/\ cpc \in {"clear_slot", "store_c"} =>
                /\ pool_on /\ cc # cp /\ cc = c_idx
                /\ cskb # NULL /\ users[cskb] < 2
          /\ cpc = "clear_slot" => skbs[cc] = cskb
          /\ cpc = "store_c" => skbs[cc] = NULL)
    /\ [][/\ PopStoreC =>
                /\ pop_ret' = cskb
                /\ c_idx' = (c_idx + 1) % PoolSize
                /\ UNCHANGED <<p_idx, skbs>>
          /\ PopReturnsNone =>
                /\ pop_ret' = NULL
                /\ UNCHANGED <<c_idx, p_idx, skbs, popped>>
                /\ \/ ~pool_on
                   \/ cpc = "load_p" /\ cc = p_idx
                   \/ cpc = "read_slot" /\ users[skbs[cc]] >= 2
          /\ c_idx' # c_idx => PopStoreC]_vars

C27_Witness ==
    /\ cpc = "idle" /\ pop_ret = NULL /\ Len(popped) >= 1
    /\ c_idx # p_idx /\ skbs[c_idx] # NULL /\ users[skbs[c_idx]] = 2

\* a step in which pfq_skb_pool_push returns false
PushReturnsFalse ==
    \/ \E u \in 1..2 : PushLoadP(u) /\ ~pool_on
    \/ PushLoadC /\ ppc' = "idle"

\* C28: push stores the buffer at p_idx, advances p_idx by one modulo size and
\* returns true when the slot after p is not c_idx; when it is, or the pool is
\* disabled, it frees the buffer once through the slow path, adds one to
\* os_free, returns false and changes neither index nor any slot
C28_PushOnFull ==
    /\ [](/\ os_free = Cardinality(slow_freed)
          /\ ppc \in {"store_slot", "store_p"} =>
                /\ pool_on /\ pp = p_idx /\ (pp + 1) % PoolSize # pcc
          /\ ppc = "store_p" => skbs[pp] = pskb)
    /\ [][/\ PushStoreP =>
                /\ push_ret' = "true"
                /\ p_idx' = (p_idx + 1) % PoolSize
                /\ skbs[p_idx] = pskb
                /\ UNCHANGED <<c_idx, skbs, os_free, slow_freed>>
          /\ PushReturnsFalse =>
                /\ push_ret' = "false"
                /\ UNCHANGED <<p_idx, c_idx, skbs>>
                /\ os_free' = os_free + 1
                /\ Cardinality(slow_freed') = Cardinality(slow_freed) + 1
                /\ slow_freed' \ slow_freed = {npushed'}
                /\ ~pool_on \/ (pp + 1) % PoolSize = c_idx
          /\ (os_free' # os_free \/ slow_freed' # slow_freed) => PushReturnsFalse
          /\ p_idx' # p_idx => PushStoreP]_vars

C28_Witness ==
    /\ pool_on /\ ppc = "idle" /\ push_ret = "false"
    /\ (p_idx + 1) % PoolSize = c_idx
    /\ Cardinality(ResidentSlots) = PoolSize - 1
    /\ os_free >= 1

\* C29: an allocation failure truncates the drain. When pfq_tx_alloc_skb fails at
\* descriptor k the Tx loop is left with ptr at k and the batch as it was; the
\* final full_batch_xmit is run on the batch, and unless give-up cuts it short the
\* driver has accepted the buffers of every descriptor before k when it returns;
\* descriptor k and the descriptors after it are counted in disc; the half is
\* cleared; the drain returns tot_sent, the number of buffers accepted, which is
\* not negative.
C29_AllocFailureTruncates ==
    /\ [](\A p \in Threads : alloc_failed[p] =>
            /\ pc[p] \in {"flush", "count", "clear", "done"}
            /\ accepted[p] \o batch[p] = [i \in 1..Len(accepted[p] \o batch[p]) |-> i]
            /\ pc[p] \in {"flush", "count"} =>
                  /\ traverse_tx_queue(ring[Half(p)], ptr[p])
                  /\ Len(accepted[p]) + Len(batch[p]) = ptr[p] - 1
            /\ (pc[p] = "count" /\ ~cancelled[p]) =>
                  /\ batch[p] = <<>>
                  /\ tot_sent[p] = ptr[p] - 1
            /\ pc[p] = "clear" =>
                  /\ ldisc[p] >= Remaining(ring[Half(p)], ptr[p])
                  /\ ldisc[p] >= 1
                  /\ tot_sent[p] + ldisc[p] = LiveCount(ring[Half(p)])
            /\ pc[p] = "done" =>
                  /\ ring[Half(p)][1].len = 0
                  /\ ldisc[p] >= 1
                  /\ ret[p] = Len(accepted[p])
                  /\ ret[p] >= 0)
    /\ [][\A p \in Threads :
            /\ (alloc_failed'[p] /\ ~alloc_failed[p]) =>
                  /\ pc[p] = "alloc" /\ pc'[p] = "flush"
                  /\ batch'[p] = batch[p] /\ ptr'[p] = ptr[p]
            /\ (alloc_failed[p] /\ alloc_failed'[p]) => ptr'[p] = ptr[p]
            /\ (alloc_failed[p] /\ pc[p] = "count" /\ pc'[p] = "clear") =>
                  /\ ldisc'[p] = Len(batch[p]) + Remaining(ring[Half(p)], ptr[p])
                  /\ disc' = disc + ldisc'[p]
                  /\ sent' = sent + tot_sent[p]]_vars

C29_Witness ==
    \E p \in Threads :
        /\ pc[p] = "done"
        /\ alloc_failed[p] /\ ~cancelled[p]
        /\ ptr[p] = 2
        /\ accepted[p] = <<1>>
        /\ ret[p] = 1 /\ ldisc[p] = 2
        /\ ring[Half(p)][3].len > 0

\* C30: flush before wait. When the Tx loop reaches a descriptor whose timestamp
\* is greater than now, the last clock the drain captured, and the batch is not
\* empty, full_batch_xmit is run before wait_until: wait_until never spins with a
\* buffer in the batch, and the driver has accepted the buffer of every descriptor
\* before the one waited for.
C30_FlushBeforeWait ==
    /\ [](\A p \in Threads : pc[p] = "wait" =>
            /\ batch[p] = <<>>
            /\ last_ts[p] > now[p]
            /\ last_ts[p] = ring[Half(p)][ptr[p]].nsec
            /\ accepted[p] = [i \in 1..(ptr[p] - 1) |-> i]
            /\ tot_sent[p] = ptr[p] - 1)
    /\ [][\A p \in Threads :
            /\ (/\ pc[p] = "loop" /\ pc'[p] # "loop"
                /\ traverse_tx_queue(ring[Half(p)], ptr[p])
                /\ ring[Half(p)][ptr[p]].nsec > now[p]
                /\ batch[p] # <<>>) => pc'[p] = "loop_xmit"
            /\ (pc[p] = "loop_xmit" /\ pc'[p] = "wait") =>
                  /\ batch[p] = <<>>
                  /\ fbx_ret'[p] >= 0
            /\ (pc[p] = "loop_xmit" /\ fbx_ret'[p] < 0) => pc'[p] # "wait"]_vars

C30_Witness ==
    \E p \in Threads :
        /\ pc[p] = "wait"
        /\ ptr[p] = 2
        /\ last_ts[p] > now[p]
        /\ accepted[p] = <<1>>
        /\ batch[p] = <<>>
        /\ Len(accepted[p]) < batch_len

\* C31: drain reads stay in the drained half. Every byte a drain reads from the
\* ring, the header of each descriptor and the max(min(len, max_len), 64) bytes
\* copied behind it, lies within [begin, end) of the drained half, for every layout
\* user space can write.
C31_ReadsInHalf == rd_hi <= HalfBytes

\* C32: TX queue lock discipline. In pfq_xmit, pfq_batch_xmit,
\* pfq_batch_xmit_by_mask and pfq_lazy_xmit_exec a TX queue lock is taken only
\* when none is held, the lock held changes only by being released, and no lock is
\* held when the call has returned, whether buffers were accepted, refused by the
\* driver or could not be cloned.
C32_LockDiscipline ==
    /\ [](/\ bx_lock <=> bx_txq # -1
          /\ bx_lock <=> bx_pc \in {"loop", "intr", "px_xmit"}
          /\ (lz_txq # NULL) <=> (lz_queue # -1)
          /\ lz_txq # NULL => lz_pc \in {"skb", "fwd", "unlock"}
          /\ ~(bx_lock /\ lz_txq # NULL)
          /\ bx_pc = "done" => ~bx_lock
          /\ lz_pc = "done" => lz_txq = NULL)
    /\ [][/\ (bx_lock' /\ ~bx_lock) =>
                /\ bx_txq = -1
                /\ bx_txq' \in 0..(bx_real_num - 1)
          /\ (bx_txq # -1 /\ bx_txq' # bx_txq) => bx_txq' = -1
          /\ \A d \in Devs : lz_locks'[d] # lz_locks[d] =>
                /\ lz_locks'[d] = lz_locks[d] + 1
                /\ lz_txq = NULL /\ lz_txq' = d
                /\ lz_queue = -1 /\ lz_queue' \in 0..(LazyRealQueues - 1)
          /\ (lz_txq # NULL /\ lz_txq' # lz_txq) => (lz_txq' = NULL /\ lz_queue' = -1)
          /\ (lz_txq = NULL /\ lz_txq' # NULL) => lz_locks'[lz_txq'] = lz_locks[lz_txq'] + 1]_vars

C32_Witness ==
    /\ lz_pc = "done"
    /\ lz_locks = <<1, 1>>
    /\ lz_txq = NULL /\ lz_queue = -1
    /\ lz_sent >= 1
    /\ lz_att[1] > lz_handed[1]
    /\ lz_att[2] > lz_handed[2]
    /\ lz_abrt >= 2

\* C38: submission under the right lock. Every buffer that pfq_xmit,
\* pfq_batch_xmit, pfq_batch_xmit_by_mask and pfq_lazy_xmit_exec give to
\* ndo_start_xmit is given while the caller holds the lock of the TX queue that
\* the buffer's queue mapping designates.
C38_RightLock ==
    /\ \A u \in bx_under : u[1] = u[2]
    /\ \A u \in lz_under : u[1] = u[2]

\* C33: the batch never overflows. In every state of a drain the batch holds at
\* most batch_len handles, and a handle is pushed only by the allocation step of
\* the Tx loop and only when the batch holds fewer than batch_len handles; a full
\* batch is flushed before the next push, and a flush cut short by give-up leaves
\* the loop without a push.
C33_BatchBounded ==
    /\ [](\A p \in Threads :
            /\ Len(batch[p]) <= batch_len
            /\ pc[p] \in {"wait", "alloc"} => Len(batch[p]) < batch_len)
    /\ [][\A p \in Threads :
            /\ Len(batch'[p]) > Len(batch[p]) =>
                  /\ pc[p] = "alloc"
                  /\ Len(batch[p]) < batch_len
                  /\ Len(batch'[p]) = Len(batch[p]) + 1
            /\ (pc[p] = "loop_xmit" /\ pc'[p] # "loop_xmit" /\ fbx_ret'[p] < 0) =>
                  pc'[p] = "flush"
            /\ (pc[p] = "loop" /\ pc'[p] # "loop" /\ Len(batch[p]) = batch_len
                  /\ traverse_tx_queue(ring[Half(p)], ptr[p])) => pc'[p] = "loop_xmit"]_vars

C33_Witness ==
    \E p \in Threads :
        /\ pc[p] = "alloc"
        /\ giveup[p]
        /\ last_ts[p] > now[p]
        /\ ptr[p] = batch_len + 1
        /\ Len(accepted[p]) = batch_len
        /\ batch[p] = <<>>

\* C34: predicate serialization. serialize(n, Pred2{comb, left, right}) returns
\* the combinator descriptor, then the descriptors of left, then the descriptors
\* of right; the combinator's left index is n + 1, its right index is the index
\* that follows left's subtree, and the next index returned is n plus the number
\* of descriptors emitted.
C34_SerializePred2 ==
    (ser_pc = "done" /\ ser_in.k = "Pred2") =>
        LET l == serialize(ser_n + 1, ser_in.left)
            r == serialize(l.next, ser_in.right)
            d == ser_out.descrs
        IN  /\ Len(d) = 1 + Len(l.descrs) + Len(r.descrs)
            /\ d[1].type = "pfq_combinator_fun" /\ d[1].symbol = ser_in.comb
            /\ d[1].left = ser_n + 1
            /\ d[1].right = ser_n + 1 + Len(l.descrs)
            /\ SubSeq(d, 2, 1 + Len(l.descrs)) = l.descrs
            /\ SubSeq(d, 2 + Len(l.descrs), Len(d)) = r.descrs
            /\ ser_out.next = ser_n + Len(d)

\* slot i lies in the occupied range [c_idx, p_idx), taken cyclically
Occupied(i) == (i - c_idx + PoolSize) % PoolSize < (p_idx - c_idx + PoolSize) % PoolSize

\* C35: pool structural invariant. With one producer and one consumer, p_idx and
\* c_idx stay in [0, size); every slot in the occupied range [c_idx, p_idx) holds
\* a buffer and every slot outside it is NULL, except the slot a running pop has
\* emptied before it stores c_idx and the slot a running push has filled before it
\* stores p_idx; at most size - 1 buffers are resident; BUG_ON never fires and pop
\* never reads an empty slot.
C35_PoolStructure ==
    /\ p_idx \in Slots /\ c_idx \in Slots
    /\ \A i \in Slots :
          /\ (Occupied(i) /\ skbs[i] = NULL) => (cpc = "store_c" /\ i = cc /\ i = c_idx)
          /\ (~Occupied(i) /\ skbs[i] # NULL) => (ppc = "store_p" /\ i = pp /\ i = p_idx)
    /\ (ppc = "idle" /\ cpc = "idle") =>
          \A i \in Slots : Occupied(i) <=> skbs[i] # NULL
    /\ Cardinality({i \in Slots : skbs[i] # NULL}) <= PoolSize - 1
    /\ Cardinality({i \in Slots : Occupied(i)}) <= PoolSize - 1
    /\ ppc = "store_slot" => skbs[pp] = NULL
    /\ ~bug_on
    /\ cpc # "oops"

C35_Witness ==
    /\ ppc = "idle" /\ cpc = "idle"
    /\ p_idx < c_idx
    /\ Cardinality({i \in Slots : skbs[i] # NULL}) = PoolSize - 1
    /\ Len(popped) >= 2
    /\ skbs[c_idx] # NULL /\ skbs[p_idx] = NULL
    /\ ~bug_on

\* the buffer is still in the batch of full_batch_xmit
InBatch(b) == \E i \in 1..Len(fb_batch) : fb_batch[i] = b

\* submissions of the buffer the driver completed: each took one reference
Completed(b) ==
    Cardinality({ k \in 1..Len(fb_hist[b]) : dev_xmit_complete(fb_hist[b][k]) })

\* C36: reference conservation in the drain: the engine never releases a
\* reference it does not hold and skb->users never underflows; when
\* full_batch_xmit has returned, a buffer still in the batch holds the one
\* reference it had on entry and was not recycled, and a buffer counted as sent
\* has given exactly one reference to the driver and one to the pool or the
\* slow-path free; when the drain is over every buffer was released exactly once.
C36_RefConservation ==
    \A b \in 1..MaxBatch : b \in FbBufs =>
        /\ fb_held[b] >= 0 /\ fb_users[b] >= 0
        /\ fb_users[b] = fb_held[b] + fb_drv[b] + fb_pool[b]
        /\ fb_gave[b] <= 1
        /\ (fb_pc = "ret" /\ InBatch(b)) => (fb_held[b] = 1 /\ fb_gave[b] = 0)
        /\ (fb_pc \in {"loop", "ret", "done"} /\ ~InBatch(b)) =>
              (fb_held[b] = 0 /\ fb_gave[b] = 1 /\ Completed(b) = 1)
        /\ fb_pc = "done" => (fb_held[b] = 0 /\ fb_gave[b] = 1)

\* C37: no duplicate transmission: the driver completes at most one submission
\* of a buffer, and a buffer whose submission the driver completed (with
\* NETDEV_TX_OK or another complete code) is not given to start_xmit again.
C37_NoDuplicate ==
    \A b \in 1..MaxBatch : b \in FbBufs =>
        \A k \in 1..Len(fb_hist[b]) :
            dev_xmit_complete(fb_hist[b][k]) => k = Len(fb_hist[b])

\* thread p is inside __pfq_queue_xmit
InDrain(p) == pc[p] \notin {"idle", "done", "intr"}

\* C39: drain termination. With the draining thread scheduled (weak fairness of
\* its steps), a drain returns if give-up becomes true and stays true, or if the
\* producer commits the prod value a waiting drain awaits, the clock reaches
\* every timestamp, and the driver does not refuse for ever a batch that is
\* offered to it again and again. A pass of full_batch_xmit on a non-empty batch
\* moves on only by a driver acceptance, which shortens the batch, or by give-up.
C39_DrainTerminates ==
    /\ \A p \in Threads :
          (\/ <>[]giveup[p]
           \/ /\ (pc[p] = "swap_wait") ~> (prod = idx[p])
              /\ <>(clock >= MaxTs)
              /\ WF_vars(AcceptXmit(p)))
          => (InDrain(p) ~> ~InDrain(p))
    /\ [][\A p \in Threads :
            (/\ pc[p] \in {"loop_xmit", "flush"}
             /\ Len(batch[p]) > 0
             /\ (pc'[p] # pc[p] \/ batch'[p] # batch[p]))
            => \/ giveup[p]
               \/ /\ Len(batch'[p]) < Len(batch[p])
                  /\ Len(accepted'[p]) > Len(accepted[p])]_vars

\* a drain returned without give-up after the driver had refused a buffer and
\* after it had waited for a timestamp
C39_Witness ==
    \E p \in Threads :
        /\ pc[p] = "done"
        /\ ~giveup[p] /\ ~cancelled[p] /\ ~alloc_failed[p]
        /\ first_rej[p] >= 0
        /\ tot_sent[p] = 3
        /\ last_ts[p] = 0 /\ now[p] >= MaxTs

====
